---- MODULE Spec2Model ----
(***************************************************************************)
(* A model of the WCAG colour contrast engine of ai-accessibility-api      *)
(* (src/app/lib/colorsense.py, class ColorContrastAnalyzer).               *)
(*                                                                         *)
(* Python strings are sequences of one-character strings, so that the      *)
(* string operations of the code (strip, lower, lstrip, slicing, the       *)
(* regular expressions, int(x, 16), str.format) are computed and not       *)
(* assumed.  None is the empty tuple <<>>; a colour is a tuple <<r, g, b>>.*)
(***************************************************************************)
EXTENDS Integers, Sequences, FiniteSets, TLC

VARIABLES
    pc,              \* the position of the caller in the run
    color_str,       \* parse_color: its argument
    color,           \* parse_color: its result
    hex,             \* rgb_to_hex: its result
    decls,           \* the declarations the inline style was written from
    style,           \* get_computed_colors: element.get('style', '')
    parent_bg,       \* get_computed_colors: its parent_bg argument
    colors,          \* get_computed_colors: its result
    html_content,    \* analyze_html, add_tooltips_to_html: the markup
    analysis_result, \* analyze_html: its result
    issues,          \* add_tooltips_to_html: its issues argument
    marked_html,     \* add_tooltips_to_html: its result
    element_name,    \* is_large_text: element.name
    large_text,      \* is_large_text: its result
    color_a,         \* calculate_contrast_ratio: its first argument
    color_b,         \* calculate_contrast_ratio: its second argument
    contrast,        \* calculate_contrast_ratio: its result
    large_flag,      \* check_wcag_compliance: its is_large argument
    wcag,            \* check_wcag_compliance: its result
    axe_pc,          \* the position of the running call of the axe checker
    axe_call,        \* the call: its name and its add_markers argument
    driver,          \* AxeColorContrastChecker.driver
    open_drivers,    \* the browser drivers created and not quit
    drivers_created, \* the number of drivers created so far
    temp_files,      \* the temporary files that exist
    files_created,   \* the number of temporary files created so far
    temp_path,       \* check_html: temp_path
    phase,           \* check_url_contrast: 1 in check_url, 2 in the marker block
    raising,         \* an exception is propagating
    violations,      \* result['violations'] is not empty
    outcome,         \* how the last call ended
    calls,           \* the number of calls made on the checker
    lead_text,       \* the text of the markup outside its elements
    add_tooltips,    \* analyze_html_contrast_controller: its add_tooltips argument
    response         \* analyze_html_contrast_controller: what it returns

colorVars == <<color_str, color, hex>>

styleVars == <<decls, style, parent_bg, colors>>

scanVars == <<html_content, analysis_result, issues, marked_html>>

largeVars == <<element_name, large_text>>

contrastVars == <<color_a, color_b, contrast, large_flag, wcag>>

axeVars == <<axe_pc, axe_call, driver, open_drivers, drivers_created, temp_files,
             files_created, temp_path, phase, raising, violations, outcome, calls>>

controllerVars == <<lead_text, add_tooltips, response>>

vars == <<pc, colorVars, styleVars, scanVars, largeVars, contrastVars, axeVars,
          controllerVars>>

----------------------------------------------------------------------------
(* Python string primitives                                                *)

None == <<>>

UpperCase == <<"A","B","C","D","E","F","G","H","I","J","K","L","M",
               "N","O","P","Q","R","S","T","U","V","W","X","Y","Z">>

LowerCase == <<"a","b","c","d","e","f","g","h","i","j","k","l","m",
               "n","o","p","q","r","s","t","u","v","w","x","y","z">>

DecDigits == <<"0","1","2","3","4","5","6","7","8","9">>

HexDigits == <<"0","1","2","3","4","5","6","7","8","9","a","b","c","d","e","f">>

\* str.isspace for one character (also the regular expression class \s)
IsSpace(c) == c \in {" ", "\t", "\n", "\r"}

\* the regular expression class \d
IsDigit(c) == \E i \in 1..10 : DecDigits[i] = c

DigitVal(c) == (CHOOSE i \in 1..10 : DecDigits[i] = c) - 1

LowerChar(c) ==
    IF \E i \in 1..26 : UpperCase[i] = c
    THEN LowerCase[CHOOSE i \in 1..26 : UpperCase[i] = c]
    ELSE c

\* str.lower
lower(s) == [i \in 1..Len(s) |-> LowerChar(s[i])]

IsHexDigit(c) == \E i \in 1..16 : HexDigits[i] = LowerChar(c)

HexVal(c) == (CHOOSE i \in 1..16 : HexDigits[i] = LowerChar(c)) - 1

\* s[i:j] of Python, 0-based and clamped to the length of s
Slice(s, i, j) ==
    LET hi == IF j > Len(s) THEN Len(s) ELSE j
    IN  IF i >= hi THEN <<>> ELSE SubSeq(s, i + 1, hi)

\* str.startswith
startswith(s, p) == Len(s) >= Len(p) /\ SubSeq(s, 1, Len(p)) = p

\* the number of leading characters of s that satisfy the class
RECURSIVE LeadingSpaces(_)
LeadingSpaces(s) ==
    IF s = <<>> \/ ~IsSpace(Head(s)) THEN 0 ELSE 1 + LeadingSpaces(Tail(s))

RECURSIVE TrailingSpaces(_)
TrailingSpaces(s) ==
    IF s = <<>> \/ ~IsSpace(s[Len(s)]) THEN 0
    ELSE 1 + TrailingSpaces(SubSeq(s, 1, Len(s) - 1))

\* str.strip()
strip(s) ==
    LET a == LeadingSpaces(s)
    IN  IF a = Len(s) THEN <<>>
        ELSE SubSeq(s, a + 1, Len(s) - TrailingSpaces(s))

\* str.lstrip(c)
RECURSIVE lstrip(_, _)
lstrip(s, c) ==
    IF s = <<>> \/ Head(s) # c THEN s ELSE lstrip(Tail(s), c)

\* the value of one or two hex digits
HexMagnitude(d) ==
    IF Len(d) = 1 THEN HexVal(d[1]) ELSE 16 * HexVal(d[1]) + HexVal(d[2])

\* int(s, 16) on the digits d that follow the sign, if any
Int16Digits(d, negative) ==
    IF Len(d) \in {1, 2} /\ \A i \in 1..Len(d) : IsHexDigit(d[i])
    THEN [ok |-> TRUE, val |-> IF negative THEN 0 - HexMagnitude(d) ELSE HexMagnitude(d)]
    ELSE [ok |-> FALSE, val |-> 0]

\* int(s, 16) on a string without surrounding white space
Int16Stripped(t) ==
    IF Len(t) > 0 /\ t[1] \in {"+", "-"}
    THEN Int16Digits(Tail(t), t[1] = "-")
    ELSE Int16Digits(t, FALSE)

\* int(s, 16) on a slice of at most two characters: surrounding white space
\* is dropped, one sign is allowed, and what is left must be hex digits;
\* ok = FALSE stands for ValueError
int16(s) == Int16Stripped(strip(s))

\* int(s) on a non-empty string of decimal digits
RECURSIVE int10(_)
int10(s) ==
    IF s = <<>> THEN 0
    ELSE 10 * int10(SubSeq(s, 1, Len(s) - 1)) + DigitVal(s[Len(s)])

\* the digits of n >= 0 in the given base, most significant first
RECURSIVE ToDigits(_, _)
ToDigits(n, base) ==
    IF n < base THEN <<HexDigits[n + 1]>>
    ELSE Append(ToDigits(n \div base, base), HexDigits[(n % base) + 1])

\* the format as it would be without the zero padding, '{:x}'
Format02x_unpadded(n) ==
    IF n < 0 THEN <<"-">> \o ToDigits(0 - n, 16) ELSE ToDigits(n, 16)

\* '{:02x}'.format(n): sign, then the digits padded with zeros to width 2
Format02x(n) ==
    IF n < 0 THEN
        LET d == ToDigits(0 - n, 16) IN <<"-">> \o d
    ELSE
        LET d == ToDigits(n, 16) IN IF Len(d) < 2 THEN <<"0">> \o d ELSE d

----------------------------------------------------------------------------
(* Color model                                                             *)

\* 'if len(hex_color) == 3: hex_color = ''.join([c*2 for c in hex_color])'
DoubleShort(h) ==
    IF Len(h) = 3 THEN <<h[1], h[1], h[2], h[2], h[3], h[3]>> ELSE h

\* the tuple of the three parsed channels, (0, 0, 0) on ValueError
ChannelTuple(c1, c2, c3) ==
    IF c1.ok /\ c2.ok /\ c3.ok THEN <<c1.val, c2.val, c3.val>> ELSE <<0, 0, 0>>

\* 'tuple(int(hex_color[i:i+2], 16) for i in (0, 2, 4))'
HexChannels(h) ==
    ChannelTuple(int16(Slice(h, 0, 2)), int16(Slice(h, 2, 4)), int16(Slice(h, 4, 6)))

\* hex_to_rgb
hex_to_rgb(hex_color) == HexChannels(DoubleShort(lstrip(hex_color, "#")))

\* rgb_to_hex
rgb_to_hex(rgb) ==
    <<"#">> \o Format02x(rgb[1]) \o Format02x(rgb[2]) \o Format02x(rgb[3])

\* the index after the longest run of digits of s that starts at index i
RECURSIVE DigitsEnd(_, _)
DigitsEnd(s, i) ==
    IF i <= Len(s) /\ IsDigit(s[i]) THEN DigitsEnd(s, i + 1) ELSE i

\* the index after the longest run of white space of s that starts at index i
RECURSIVE SpacesEnd(_, _)
SpacesEnd(s, i) ==
    IF i <= Len(s) /\ IsSpace(s[i]) THEN SpacesEnd(s, i + 1) ELSE i

\* the three groups between the given indices, or None when a group is
\* empty or a comma is missing
RgbGroups(s, p0, e1, p1, e2, p2, e3) ==
    IF /\ p0 > 0
       /\ e1 > p0 /\ e1 <= Len(s) /\ s[e1] = ","
       /\ e2 > p1 /\ e2 <= Len(s) /\ s[e2] = ","
       /\ e3 > p2
    THEN <<SubSeq(s, p0, e1 - 1), SubSeq(s, p1, e2 - 1), SubSeq(s, p2, e3 - 1)>>
    ELSE None

\* the third group (\d+) from index p2
RgbThird(s, p0, e1, p1, e2, p2) ==
    RgbGroups(s, p0, e1, p1, e2, p2, DigitsEnd(s, p2))

\* ',\s*' after the second group, which ends before index e2
RgbSecondEnd(s, p0, e1, p1, e2) ==
    RgbThird(s, p0, e1, p1, e2, SpacesEnd(s, e2 + 1))

\* the second group (\d+) from index p1
RgbSecond(s, p0, e1, p1) == RgbSecondEnd(s, p0, e1, p1, DigitsEnd(s, p1))

\* ',\s*' after the first group, which ends before index e1
RgbFirstEnd(s, p0, e1) == RgbSecond(s, p0, e1, SpacesEnd(s, e1 + 1))

\* the first group (\d+) from index p0, the index after 'rgb(' or 'rgba('
RgbFirst(s, p0) == RgbFirstEnd(s, p0, DigitsEnd(s, p0))

\* re.match(r'rgba?\((\d+),\s*(\d+),\s*(\d+)', s): the three groups, or None
rgb_match(s) ==
    RgbFirst(s, IF startswith(s, <<"r","g","b","a","(">>) THEN 6
                ELSE IF startswith(s, <<"r","g","b","(">>) THEN 5
                ELSE 0)

\* the values parse_color rejects before it looks at the format
null_keywords ==
    { <<"t","r","a","n","s","p","a","r","e","n","t">>,
      <<"i","n","h","e","r","i","t">>,
      <<"i","n","i","t","i","a","l">>,
      <<"u","n","s","e","t">> }

named_colors == {
    [name |-> <<"w","h","i","t","e">>, rgb |-> <<255, 255, 255>>],
    [name |-> <<"b","l","a","c","k">>, rgb |-> <<0, 0, 0>>],
    [name |-> <<"r","e","d">>, rgb |-> <<255, 0, 0>>],
    [name |-> <<"g","r","e","e","n">>, rgb |-> <<0, 128, 0>>],
    [name |-> <<"b","l","u","e">>, rgb |-> <<0, 0, 255>>],
    [name |-> <<"y","e","l","l","o","w">>, rgb |-> <<255, 255, 0>>],
    [name |-> <<"c","y","a","n">>, rgb |-> <<0, 255, 255>>],
    [name |-> <<"m","a","g","e","n","t","a">>, rgb |-> <<255, 0, 255>>],
    [name |-> <<"g","r","a","y">>, rgb |-> <<128, 128, 128>>],
    [name |-> <<"g","r","e","y">>, rgb |-> <<128, 128, 128>>],
    [name |-> <<"s","i","l","v","e","r">>, rgb |-> <<192, 192, 192>>],
    [name |-> <<"m","a","r","o","o","n">>, rgb |-> <<128, 0, 0>>],
    [name |-> <<"o","l","i","v","e">>, rgb |-> <<128, 128, 0>>],
    [name |-> <<"l","i","m","e">>, rgb |-> <<0, 255, 0>>],
    [name |-> <<"a","q","u","a">>, rgb |-> <<0, 255, 255>>],
    [name |-> <<"t","e","a","l">>, rgb |-> <<0, 128, 128>>],
    [name |-> <<"n","a","v","y">>, rgb |-> <<0, 0, 128>>],
    [name |-> <<"f","u","c","h","s","i","a">>, rgb |-> <<255, 0, 255>>],
    [name |-> <<"p","u","r","p","l","e">>, rgb |-> <<128, 0, 128>>],
    [name |-> <<"o","r","a","n","g","e">>, rgb |-> <<255, 165, 0>>] }

\* the rgb() and named branches of parse_color, m the match of the rgb pattern
ParseFunctionalOrNamed(s, m) ==
    IF m # None THEN <<int10(m[1]), int10(m[2]), int10(m[3])>>
    ELSE IF \E n \in named_colors : n.name = s
    THEN (CHOOSE n \in named_colors : n.name = s).rgb
    ELSE None

\* parse_color after 'color_str = color_str.strip().lower()', as it would be
\* if the leading '#' were optional
ParseNormalized_hash_optional(s) ==
    IF startswith(s, <<"#">>)
       \/ (Len(s) \in {3, 6} /\ \A i \in 1..Len(s) : IsHexDigit(s[i]))
    THEN hex_to_rgb(s)
    ELSE ParseFunctionalOrNamed(s, rgb_match(s))

\* parse_color as it would be if the leading '#' were optional
parse_color_hash_optional(s0) ==
    IF s0 = <<>> \/ lower(s0) \in null_keywords THEN None
    ELSE ParseNormalized_hash_optional(lower(strip(s0)))

\* parse_color after 'color_str = color_str.strip().lower()'
ParseNormalized(s) ==
    IF startswith(s, <<"#">>) THEN hex_to_rgb(s)
    ELSE ParseFunctionalOrNamed(s, rgb_match(s))

\* parse_color
parse_color(s0) ==
    IF s0 = <<>> \/ lower(s0) \in null_keywords THEN None
    ELSE ParseNormalized(lower(strip(s0)))

----------------------------------------------------------------------------
(* Style resolver                                                          *)

\* the index after the longest run of characters other than ';' from index i
RECURSIVE NonSemiEnd(_, _)
NonSemiEnd(s, i) ==
    IF i <= Len(s) /\ s[i] # ";" THEN NonSemiEnd(s, i + 1) ELSE i

\* the group of \s*([^;]+) matched from index j, or None when it cannot
\* match: \s* is greedy and gives one character back when nothing but the
\* white space is left for the group
ValueGroup(s, j) ==
    LET k == SpacesEnd(s, j)
        e == NonSemiEnd(s, k)
    IN  IF e > k THEN SubSeq(s, k, e - 1)
        ELSE IF k > j THEN <<s[k - 1]>>
        ELSE None

\* whether the text p stands in s at index i, letter case ignored
TextAt(s, i, p) ==
    /\ i >= 1
    /\ i + Len(p) - 1 <= Len(s)
    /\ lower(SubSeq(s, i, i + Len(p) - 1)) = p

\* the group of r'color:\s*([^;]+)' where the pattern matches at index i
ColorGroupAt(s, i) ==
    IF TextAt(s, i, <<"c","o","l","o","r",":">>) THEN ValueGroup(s, i + 6) ELSE None

\* the group of r'background(?:-color)?:\s*([^;]+)' matching at index i
BackgroundGroupAt(s, i) ==
    IF TextAt(s, i, <<"b","a","c","k","g","r","o","u","n","d","-","c","o","l","o","r",":">>) THEN ValueGroup(s, i + 17)
    ELSE IF TextAt(s, i, <<"b","a","c","k","g","r","o","u","n","d",":">>) THEN ValueGroup(s, i + 11)
    ELSE None

\* re.search(r'color:\s*([^;]+)', style, re.IGNORECASE): group 1 of the
\* leftmost match, or None
color_match(s) ==
    LET hits == { i \in 1..Len(s) : ColorGroupAt(s, i) # None }
    IN  IF hits = {} THEN None
        ELSE ColorGroupAt(s, CHOOSE i \in hits : \A j \in hits : i <= j)

\* re.search(r'background(?:-color)?:\s*([^;]+)', style, re.IGNORECASE)
bg_match(s) ==
    LET hits == { i \in 1..Len(s) : BackgroundGroupAt(s, i) # None }
    IN  IF hits = {} THEN None
        ELSE BackgroundGroupAt(s, CHOOSE i \in hits : \A j \in hits : i <= j)

\* 'parse_color(match.group(1))' when the pattern matched
ParsedGroup(m) == IF m # None THEN parse_color(m) ELSE None

\* the defaults of get_computed_colors for what the style does not give
ColorsOrDefaults(fg, bg, pbg) ==
    [ foreground |-> IF fg = None THEN <<0, 0, 0>> ELSE fg,
      background |-> IF bg = None
                     THEN (IF pbg # None THEN pbg ELSE <<255, 255, 255>>)
                     ELSE bg ]

\* get_computed_colors, on the element's style attribute ('' when absent)
get_computed_colors(st, pbg) ==
    ColorsOrDefaults(ParsedGroup(color_match(st)), ParsedGroup(bg_match(st)), pbg)

----------------------------------------------------------------------------
(* Luminance and contrast.  Python floats are fixed-point integers here:   *)
(* a luminance is held in units of 10^-7, a contrast ratio as the fraction *)
(* num/den of two such values, a threshold in tenths.                      *)

\* adjust_channel(c) for c in 0..255, in units of 10^-7 (entry c + 1)
LinearChannel ==
<<
    0, 3035, 6071, 9106, 12141, 15176, 18212, 21247,
    24282, 27317, 30353, 33465, 36765, 40247, 43914, 47770,
    51815, 56054, 60488, 65121, 69954, 74990, 80232, 85681,
    91341, 97212, 103298, 109601, 116122, 122865, 129830, 137021,
    144438, 152085, 159963, 168074, 176420, 185002, 193824, 202886,
    212190, 221739, 231534, 241576, 251869, 262412, 273209, 284260,
    295568, 307134, 318960, 331048, 343398, 356013, 368895, 382044,
    395462, 409152, 423114, 437350, 451862, 466651, 481718, 497066,
    512695, 528606, 544803, 561285, 578054, 595112, 612461, 630100,
    648033, 666259, 684782, 703601, 722719, 742136, 761854, 781874,
    802198, 822827, 843762, 865005, 886556, 908417, 930590, 953075,
    975873, 998987, 1022417, 1046165, 1070231, 1094617, 1119324, 1144354,
    1169707, 1195384, 1221388, 1247718, 1274377, 1301365, 1328683, 1356333,
    1384316, 1412633, 1441285, 1470273, 1499598, 1529262, 1559265, 1589608,
    1620294, 1651322, 1682694, 1714411, 1746474, 1778884, 1811642, 1844750,
    1878208, 1912017, 1946178, 1980693, 2015563, 2050787, 2086369, 2122308,
    2158605, 2195262, 2232280, 2269659, 2307400, 2345506, 2383976, 2422811,
    2462013, 2501583, 2541521, 2581829, 2622507, 2663556, 2704978, 2746773,
    2788943, 2831487, 2874408, 2917706, 2961383, 3005438, 3049873, 3094689,
    3139887, 3185468, 3231432, 3277781, 3324515, 3371636, 3419144, 3467041,
    3515326, 3564001, 3613068, 3662526, 3712377, 3762621, 3813260, 3864294,
    3915725, 3967552, 4019778, 4072402, 4125426, 4178851, 4232677, 4286905,
    4341536, 4396572, 4452012, 4507858, 4564110, 4620770, 4677838, 4735315,
    4793202, 4851499, 4910208, 4969330, 5028865, 5088813, 5149177, 5209956,
    5271151, 5332764, 5394795, 5457245, 5520114, 5583404, 5647115, 5711248,
    5775804, 5840784, 5906188, 5972018, 6038273, 6104956, 6172066, 6239604,
    6307571, 6375969, 6444797, 6514056, 6583748, 6653873, 6724432, 6795425,
    6866853, 6938718, 7011019, 7083758, 7156935, 7230551, 7304607, 7379104,
    7454042, 7529422, 7605245, 7681511, 7758222, 7835378, 7912979, 7991027,
    8069523, 8148466, 8227858, 8307699, 8387990, 8468732, 8549926, 8631572,
    8713671, 8796224, 8879231, 8962694, 9046612, 9130987, 9215819, 9301109,
    9386857, 9473065, 9559734, 9646862, 9734453, 9822506, 9911021, 10000000 >>

\* adjust_channel
adjust_channel(channel) == LinearChannel[channel + 1]

\* the luminance as it would be with the three channels weighted alike
get_relative_luminance_unweighted(rgb) ==
    (adjust_channel(rgb[1]) + adjust_channel(rgb[2]) + adjust_channel(rgb[3])) \div 3

\* (weight * v) / 10000 summed over the channels without leaving 32 bits
get_relative_luminance(rgb) ==
    LET r == adjust_channel(rgb[1])
        g == adjust_channel(rgb[2])
        b == adjust_channel(rgb[3])
    IN  2126 * (r \div 10000) + 7152 * (g \div 10000) + 722 * (b \div 10000)
        + ((2126 * (r % 10000) + 7152 * (g % 10000) + 722 * (b % 10000))
               \div 10000)

\* the ratio as it would be without max and min, (lum1 + 0.05) / (lum2 + 0.05)
calculate_contrast_ratio_unordered(color1, color2) ==
    [num |-> get_relative_luminance(color1) + 500000,
     den |-> get_relative_luminance(color2) + 500000]

\* calculate_contrast_ratio: (lighter + 0.05) / (darker + 0.05)
calculate_contrast_ratio(color1, color2) ==
    LET lum1 == get_relative_luminance(color1)
        lum2 == get_relative_luminance(color2)
        lighter == IF lum1 >= lum2 THEN lum1 ELSE lum2
        darker  == IF lum1 >= lum2 THEN lum2 ELSE lum1
    IN  [num |-> lighter + 500000, den |-> darker + 500000]

\* the comparison as it would be with == in place of >=
RatioAtLeast_exact(ratio, tenths) == 10 * ratio.num = tenths * ratio.den

\* ratio >= tenths / 10
RatioAtLeast(ratio, tenths) == 10 * ratio.num >= tenths * ratio.den

\* round(ratio, 2), in hundredths
Round2(ratio) == (200 * ratio.num + ratio.den) \div (2 * ratio.den)

\* WCAG 2.1 thresholds, in tenths
WCAG_AA_NORMAL == 45

WCAG_AA_LARGE == 30

WCAG_AAA_NORMAL == 70

WCAG_AAA_LARGE == 45

\* check_wcag_compliance as it would be if passes_aa and passes_aaa took the
\* thresholds of normal text whatever is_large
check_wcag_compliance_size_ignored(contrast_ratio, is_large) ==
    [ aa_normal  |-> RatioAtLeast(contrast_ratio, WCAG_AA_NORMAL),
      aa_large   |-> RatioAtLeast(contrast_ratio, WCAG_AA_LARGE),
      aaa_normal |-> RatioAtLeast(contrast_ratio, WCAG_AAA_NORMAL),
      aaa_large  |-> RatioAtLeast(contrast_ratio, WCAG_AAA_LARGE),
      passes_aa  |-> RatioAtLeast(contrast_ratio, WCAG_AA_NORMAL),
      passes_aaa |-> RatioAtLeast(contrast_ratio, WCAG_AAA_NORMAL) ]

\* check_wcag_compliance
check_wcag_compliance(contrast_ratio, is_large) ==
    [ aa_normal  |-> RatioAtLeast(contrast_ratio, WCAG_AA_NORMAL),
      aa_large   |-> RatioAtLeast(contrast_ratio, WCAG_AA_LARGE),
      aaa_normal |-> RatioAtLeast(contrast_ratio, WCAG_AAA_NORMAL),
      aaa_large  |-> RatioAtLeast(contrast_ratio, WCAG_AAA_LARGE),
      passes_aa  |-> RatioAtLeast(contrast_ratio,
                         IF is_large THEN WCAG_AA_LARGE ELSE WCAG_AA_NORMAL),
      passes_aaa |-> RatioAtLeast(contrast_ratio,
                         IF is_large THEN WCAG_AAA_LARGE ELSE WCAG_AAA_NORMAL) ]

----------------------------------------------------------------------------
(* Large text                                                              *)

\* 'p in s', the substring test, letter case kept
Contains(s, p) ==
    \E i \in 1..(Len(s) - Len(p) + 1) : SubSeq(s, i, i + Len(p) - 1) = p

\* the regular expression class \w
IsWord(c) == c = "_" \/ IsDigit(c) \/ \E i \in 1..26 : LowerCase[i] = LowerChar(c)

RECURSIVE WordEnd(_, _)
WordEnd(s, i) ==
    IF i <= Len(s) /\ IsWord(s[i]) THEN WordEnd(s, i + 1) ELSE i

\* the index after the longest run of digits and dots from index i
RECURSIVE NumberEnd(_, _)
NumberEnd(s, i) ==
    IF i <= Len(s) /\ (IsDigit(s[i]) \/ s[i] = ".") THEN NumberEnd(s, i + 1) ELSE i

\* group 1 of r'font-weight:\s*(\w+)' where the pattern matches at index i
WeightGroupAt(s, i) ==
    LET k == SpacesEnd(s, i + 12)
        e == WordEnd(s, k)
    IN  IF TextAt(s, i, <<"f","o","n","t","-","w","e","i","g","h","t",":">>) /\ e > k THEN SubSeq(s, k, e - 1) ELSE None

\* re.search(r'font-weight:\s*(\w+)', style, re.IGNORECASE)
weight_match(s) ==
    LET hits == { i \in 1..Len(s) : WeightGroupAt(s, i) # None }
    IN  IF hits = {} THEN None
        ELSE WeightGroupAt(s, CHOOSE i \in hits : \A j \in hits : i <= j)

\* the groups as they would be if the pattern took any unit for px,
\* r'font-size:\s*([\d.]+)'
SizeGroupsAt_any_unit(s, i) ==
    LET k == SpacesEnd(s, i + 10)
        e == NumberEnd(s, k)
    IN  IF TextAt(s, i, <<"f","o","n","t","-","s","i","z","e",":">>) /\ e > k
        THEN <<SubSeq(s, k, e - 1), <<"p","x">>>>
        ELSE None

\* the groups of r'font-size:\s*([\d.]+)(pt|px)' matching at index i
SizeGroupsAt(s, i) ==
    LET k == SpacesEnd(s, i + 10)
        e == NumberEnd(s, k)
    IN  IF /\ TextAt(s, i, <<"f","o","n","t","-","s","i","z","e",":">>)
           /\ e > k
           /\ (TextAt(s, e, <<"p","t">>) \/ TextAt(s, e, <<"p","x">>))
        THEN <<SubSeq(s, k, e - 1), SubSeq(s, e, e + 1)>>
        ELSE None

\* re.search(r'font-size:\s*([\d.]+)(pt|px)', style, re.IGNORECASE)
size_match(s) ==
    LET hits == { i \in 1..Len(s) : SizeGroupsAt(s, i) # None }
    IN  IF hits = {} THEN None
        ELSE SizeGroupsAt(s, CHOOSE i \in hits : \A j \in hits : i <= j)

\* the bold weights
bold_weights ==
    { <<"b","o","l","d">>, <<"b","o","l","d","e","r">>,
      <<"7","0","0">>, <<"8","0","0">>, <<"9","0","0">> }

\* 10^n
RECURSIVE Pow10(_)
Pow10(n) == IF n = 0 THEN 1 ELSE 10 * Pow10(n - 1)

\* float(s) on a string of digits and dots: the value num/den, or ok = FALSE
\* for the ValueError of more than one dot or no digit
float(s) ==
    LET dots == { i \in 1..Len(s) : s[i] = "." }
        digs == SelectSeq(s, IsDigit)
        den == IF dots = {} THEN 1
               ELSE Pow10(Len(s) - (CHOOSE i \in dots : TRUE))
    IN  IF Cardinality(dots) <= 1 /\ Len(digs) >= 1
        THEN [ok |-> TRUE, num |-> int10(digs), den |-> den]
        ELSE [ok |-> FALSE, num |-> 0, den |-> 1]

\* size >= n
SizeAtLeast(size, n) == size.num >= n * size.den

\* 'font_weight in [bold, bolder, 700, 800, 900]' for the match wm
IsBold(wm) == wm # None /\ wm \in bold_weights

\* the thresholds of is_large_text for the parsed size and its unit
LargeBySize(size, unit, is_bold, by_tag) ==
    IF ~size.ok THEN [raised |-> TRUE, value |-> FALSE]
    ELSE IF unit = <<"p","t">>
    THEN [raised |-> FALSE,
          value |-> SizeAtLeast(size, 18) \/ (is_bold /\ SizeAtLeast(size, 14))]
    ELSE IF unit = <<"p","x">>
    THEN [raised |-> FALSE,
          value |-> SizeAtLeast(size, 24) \/ (is_bold /\ SizeAtLeast(size, 19))]
    ELSE [raised |-> FALSE, value |-> by_tag]

\* is_large_text for the size match sm and the weight match wm
LargeByMatch(sm, wm, by_tag) ==
    IF sm = None THEN [raised |-> FALSE, value |-> by_tag]
    ELSE LargeBySize(float(sm[1]), sm[2], IsBold(wm), by_tag)

\* is_large_text: [raised, value]; raised stands for the ValueError of float
is_large_text(name, st) ==
    LargeByMatch(
        IF Contains(st, <<"f","o","n","t","-","s","i","z","e",":">>) THEN size_match(st) ELSE None,
        IF Contains(st, <<"f","o","n","t","-","w","e","i","g","h","t",":">>) THEN weight_match(st) ELSE None,
        name \in {"h1", "h2", "h3"})

----------------------------------------------------------------------------
(* Documents.  Markup is held as the tree it parses to: the sequence of    *)
(* its elements in document order, each with its depth (1 for a child of   *)
(* the document), its tag name, its attributes and the text it holds       *)
(* itself.  Serialising writes the same sequence out, so two markup        *)
(* strings are equal exactly when their sequences are.                     *)

\* the tag types analyze_html and add_tooltips_to_html select
TEXT_TAGS == {"p", "span", "div", "a", "button", "h1", "h2",
              "h3", "h4", "h5", "h6", "li", "td", "th", "label"}

\* a tag as the parser builds it from markup
Element(name, st, text, class) ==
    [name |-> name, style |-> st, text |-> text, class |-> class,
     depth |-> 1, marked |-> FALSE, tip |-> <<>>]

\* the last index of the subtree of element i
SubtreeEnd(doc, i) ==
    LET inside == { j \in i..Len(doc) :
                      \A k \in (i + 1)..j : doc[k].depth > doc[i].depth }
    IN  CHOOSE j \in inside : \A k \in inside : k <= j

\* the index of the parent of element i, 0 for the document itself
ParentOf(doc, i) ==
    LET above == { j \in 1..(i - 1) : doc[j].depth = doc[i].depth - 1 }
    IN  IF above = {} THEN 0 ELSE CHOOSE j \in above : \A k \in above : k <= j

\* soup.find_all([...]): the indices of the selected elements, in document order
text_elements(doc) ==
    SelectSeq([i \in 1..Len(doc) |-> i], LAMBDA i : doc[i].name \in TEXT_TAGS)

\* element.get_text(strip=True): every string of the subtree, stripped, the
\* empty ones dropped, joined
RECURSIVE JoinStripped(_, _, _)
JoinStripped(doc, i, j) ==
    IF i > j THEN <<>> ELSE strip(doc[i].text) \o JoinStripped(doc, i + 1, j)

\* get_text as it would be if it read the element's own strings only
get_text_own_only(doc, i) == strip(doc[i].text)

get_text(doc, i) == JoinStripped(doc, i, SubtreeEnd(doc, i))

\* Tag.__eq__: the same name, attributes and contents
TagEq(doc, a, b) ==
    LET ea == SubtreeEnd(doc, a)
        eb == SubtreeEnd(doc, b)
    IN  /\ ea - a = eb - b
        /\ \A k \in 0..(ea - a) :
              /\ [doc[a + k] EXCEPT !.depth = 0] = [doc[b + k] EXCEPT !.depth = 0]
              /\ doc[a + k].depth - doc[a].depth = doc[b + k].depth - doc[b].depth

\* one component of _get_xpath: the name, and the 1-based position of the
\* first equal tag among the same-name children of the parent (0 when the
\* child is the only one of its name)
XPathComponent(doc, child) ==
    LET parent == ParentOf(doc, child)
        siblings == SelectSeq([i \in 1..Len(doc) |-> i],
                        LAMBDA i : /\ ParentOf(doc, i) = parent
                                   /\ doc[i].depth = doc[child].depth
                                   /\ doc[i].name = doc[child].name)
        found == { k \in 1..Len(siblings) : TagEq(doc, siblings[k], child) }
    IN  [name |-> doc[child].name,
         pos |-> IF Len(siblings) = 1 THEN 0
                 ELSE CHOOSE k \in found : \A m \in found : k <= m]

\* the deepest level _get_xpath describes
XPATH_DEPTH == 5

\* _get_xpath: the components from the element upward, reversed
RECURSIVE XPathUp(_, _, _)
XPathUp(doc, child, n) ==
    IF n = 0 THEN <<>>
    ELSE LET parent == ParentOf(doc, child)
         IN  (IF parent = 0 THEN <<>> ELSE XPathUp(doc, parent, n - 1))
             \o <<XPathComponent(doc, child)>>

get_xpath(doc, i) == XPathUp(doc, i, XPATH_DEPTH)

\* the elements the documents are written with
ElementKinds == {
    Element("p", <<>>, <<"H","i">>, <<>>),
    Element("p", <<"c","o","l","o","r",":"," ","#","7","7","7">>, <<"H","i">>, <<>>),
    Element("div", <<>>, <<>>, <<>>),
    Element("span", <<"c","o","l","o","r",":","#","c","c","c">>, <<" ">>, <<>>),
    Element("h1", <<"c","o","l","o","r",":"," ","#","7","7","7">>, <<"H","i">>, <<>>),
    Element("b", <<"b","a","c","k","g","r","o","u","n","d",":"," ","#","0","0","0">>, <<"H","i">>, <<>>),
    Element("head", <<>>, <<>>, <<>>),
    Element("p", <<"f","o","n","t","-","s","i","z","e",":"," ","1",".","2",".","3","p","x">>, <<"H","i">>, <<>>),
    Element("h2", <<"c","o","l","o","r",":","#","c","c","c">>, <<"H","i">>, <<"title">>),
    Element("h3", <<"c","o","l","o","r",":"," ","#","0","9","f">>, <<"H","i">>, <<>>) }

----------------------------------------------------------------------------
(* Document scanner                                                        *)

\* 'if not text: continue'
SkipsElement(text) == text = <<>>

\* the issue test as it would be if it ignored the size class
IsIssue_normal_threshold(compliance) == ~compliance.aa_normal

\* 'if not compliance["passes_aa"]'
IsIssue(compliance) == ~compliance.passes_aa

\* element_index as it would be if it were counted after the empty-text filter
element_index_after_filter(k, elements_checked) == elements_checked

\* the element_index of the element at (1-based) position k of the walk,
\* given the number of elements counted so far
element_index(k, elements_checked) == k - 1

\* 'compliance = check_wcag_compliance(contrast_ratio, is_large)'
StyleCompliance(cs, contrast_ratio, large) ==
    [ colors |-> cs, contrast_ratio |-> contrast_ratio, large |-> large,
      compliance |-> check_wcag_compliance(contrast_ratio, large.value) ]

\* 'contrast_ratio = calculate_contrast_ratio(fg_color, bg_color)' and
\* 'is_large = is_large_text(element)'
StyleContrast(cs, large) ==
    StyleCompliance(cs, calculate_contrast_ratio(cs.foreground, cs.background), large)

\* what the loop body of analyze_html computes from the tag name and the
\* inline style of an element: colours, contrast, size class, compliance
StyleScan(name, st) ==
    StyleContrast(get_computed_colors(st, None), is_large_text(name, st))

\* StyleScan of the tag names and styles the documents are written with,
\* evaluated once
ScannedStyles ==
    [ e \in { <<k.name, k.style>> : k \in ElementKinds } |-> StyleScan(e[1], e[2]) ]

\* StyleScan of the name and style e, read from the table when it is there
ScanLookup(table, e) ==
    IF e \in DOMAIN table THEN table[e] ELSE StyleScan(e[1], e[2])

\* the loop body as it would be if it handed the background of the parent
\* element to get_computed_colors
ElementScan_inherited(doc, i) ==
    StyleContrast(
        get_computed_colors(doc[i].style,
            IF ParentOf(doc, i) = 0 THEN None
            ELSE get_computed_colors(doc[ParentOf(doc, i)].style, None).background),
        is_large_text(doc[i].name, doc[i].style))

\* what the loop body of analyze_html computes for element i
ElementScan(doc, i) == ScanLookup(ScannedStyles, <<doc[i].name, doc[i].style>>)

\* the severity as it would be with the cut at 2.0
severity_cut_at_two(ratio) ==
    IF ~RatioAtLeast(ratio, 20) THEN "high" ELSE "medium"

\* 'high' if contrast_ratio < 3.0 else 'medium'
severity(ratio) ==
    IF ~RatioAtLeast(ratio, 30) THEN "high" ELSE "medium"

\* the issue analyze_html builds
Issue(doc, i, idx, text, s) ==
    [ element |-> doc[i].name,
      text_preview |-> Slice(text, 0, 100),
      foreground_color |-> rgb_to_hex(s.colors.foreground),
      background_color |-> rgb_to_hex(s.colors.background),
      contrast_ratio |-> Round2(s.contrast_ratio),
      is_large_text |-> s.large.value,
      required_ratio |-> IF s.large.value THEN WCAG_AA_LARGE ELSE WCAG_AA_NORMAL,
      compliance |-> s.compliance,
      severity |-> severity(s.contrast_ratio),
      xpath |-> get_xpath(doc, i),
      element_index |-> idx ]

\* the list as it would be if a new issue were put in front
append_issue_in_front(found, issue) == <<issue>> \o found

\* 'issues.append(issue)'
append_issue(found, issue) == Append(found, issue)

\* the loop of analyze_html from position k of text_elements on
RECURSIVE ScanFrom(_, _, _, _)

\* the loop body of analyze_html for element i, position k of the walk, with
\* its text and what its style gives
ScanElement(doc, elems, k, acc, i, text, s) ==
    IF SkipsElement(text) THEN ScanFrom(doc, elems, k + 1, acc)
    ELSE IF s.colors.foreground = None \/ s.colors.background = None
    THEN ScanFrom(doc, elems, k + 1, [acc EXCEPT !.elements_checked = @ + 1])
    ELSE IF s.large.raised
    THEN [acc EXCEPT !.raised = TRUE]
    ELSE IF IsIssue(s.compliance)
    THEN ScanFrom(doc, elems, k + 1,
             [acc EXCEPT
                !.elements_checked = @ + 1,
                !.issues = append_issue(@,
                    Issue(doc, i, element_index(k, acc.elements_checked), text, s))])
    ELSE ScanFrom(doc, elems, k + 1, [acc EXCEPT !.elements_checked = @ + 1])

ScanFrom(doc, elems, k, acc) ==
    IF k > Len(elems) THEN acc
    ELSE ScanElement(doc, elems, k, acc, elems[k],
                     get_text(doc, elems[k]), ElementScan(doc, elems[k]))

\* the dictionary as it would be if the summary counted every issue as
\* high severity
Report_all_high(acc) ==
    IF acc.raised
    THEN [ raised |-> TRUE, total_elements_checked |-> 0,
           total_issues_found |-> 0, issues |-> <<>>,
           summary |-> [high_severity |-> 0, medium_severity |-> 0] ]
    ELSE [ raised |-> FALSE,
           total_elements_checked |-> acc.elements_checked,
           total_issues_found |-> Len(acc.issues),
           issues |-> acc.issues,
           summary |->
             [ high_severity |-> Len(acc.issues),
               medium_severity |->
                 Len(SelectSeq(acc.issues, LAMBDA x : x.severity = "medium")) ] ]

\* the dictionary analyze_html returns after the loop, or raised = TRUE when
\* the loop raised
Report(acc) ==
    IF acc.raised
    THEN [ raised |-> TRUE, total_elements_checked |-> 0,
           total_issues_found |-> 0, issues |-> <<>>,
           summary |-> [high_severity |-> 0, medium_severity |-> 0] ]
    ELSE [ raised |-> FALSE,
           total_elements_checked |-> acc.elements_checked,
           total_issues_found |-> Len(acc.issues),
           issues |-> acc.issues,
           summary |->
             [ high_severity |->
                 Len(SelectSeq(acc.issues, LAMBDA x : x.severity = "high")),
               medium_severity |->
                 Len(SelectSeq(acc.issues, LAMBDA x : x.severity = "medium")) ] ]

\* analyze_html: the report, or raised = TRUE when the call raises
analyze_html(doc) ==
    Report(ScanFrom(doc, text_elements(doc), 1,
               [raised |-> FALSE, elements_checked |-> 0, issues |-> <<>>]))

----------------------------------------------------------------------------
(* Annotator                                                               *)

\* the text of the style sheet add_tooltips_to_html injects
STYLESHEET == <<".","c","o","n","t","r","a","s","t","-","i","s","s","u","e","-","m","a","r","k","e","r","{","}">>

style_tag == [Element("style", <<>>, STYLESHEET, <<>>) EXCEPT !.depth = 2]

\* 'if soup.head: ... else: ...': the style tag becomes the last child of the
\* first head, or of a new head inserted first in the document
InjectStyle(doc) ==
    LET heads == { i \in 1..Len(doc) : doc[i].name = "head" }
    IN  IF heads # {}
        THEN LET h == CHOOSE i \in heads : \A j \in heads : i <= j
                 e == SubtreeEnd(doc, h)
             IN  SubSeq(doc, 1, e)
                 \o <<[style_tag EXCEPT !.depth = doc[h].depth + 1]>>
                 \o SubSeq(doc, e + 1, Len(doc))
        ELSE << [Element("head", <<>>, <<>>, <<>>) EXCEPT !.depth = 1], style_tag >>
             \o doc

\* the annotating walk as it would be if its tag list left out div
annotate_text_elements_skip_div(doc) ==
    SelectSeq([i \in 1..Len(doc) |-> i],
              LAMBDA i : doc[i].name \in (TEXT_TAGS \ {"div"}))

\* the elements the annotating walk numbers
annotate_text_elements(doc) == text_elements(doc)

\* matching_issues[0] for the index idx, or None
matching_issue(iss, idx) ==
    LET hits == { k \in 1..Len(iss) : iss[k].element_index = idx }
    IN  IF hits = {} THEN None
        ELSE <<iss[CHOOSE k \in hits : \A m \in hits : k <= m]>>

\* the tooltip tag for an issue, as a child of an element of depth d
Tooltip(issue, d) ==
    [ name |-> "div", style |-> <<>>, text |-> <<"C","o","n","t","r","a","s","t"," ","I","s","s","u","e","!">>,
      class |-> <<"contrast-tooltip">>, depth |-> d + 1, marked |-> FALSE,
      tip |-> << [ ratio |-> issue.contrast_ratio,
                   required |-> issue.required_ratio,
                   foreground |-> issue.foreground_color,
                   background |-> issue.background_color,
                   severity |-> issue.severity ] >> ]

\* the tooltips appended at the end of the subtrees that end at index i,
\* the innermost element's first
RECURSIVE TooltipsAfter(_, _, _, _)
TooltipsAfter(doc, hit, i, j) ==
    IF j < 1 THEN <<>>
    ELSE (IF hit[j] # None /\ SubtreeEnd(doc, j) = i
          THEN <<Tooltip(hit[j][1], doc[j].depth)>> ELSE <<>>)
         \o TooltipsAfter(doc, hit, i, j - 1)

\* the marking as it would be if the marker class replaced the class list
MarkElement_class_replaced(element) ==
    [element EXCEPT !.class = <<"contrast-issue-marker">>, !.marked = TRUE]

\* element['class'] = element.get('class', []) + ['contrast-issue-marker'];
\* element['data-contrast-issue'] = 'true'
MarkElement(element) ==
    [element EXCEPT !.class = @ \o <<"contrast-issue-marker">>, !.marked = TRUE]

RECURSIVE Emit(_, _, _)
Emit(doc, hit, i) ==
    IF i > Len(doc) THEN <<>>
    ELSE << IF hit[i] = None THEN doc[i] ELSE MarkElement(doc[i]) >>
         \o TooltipsAfter(doc, hit, i, i)
         \o Emit(doc, hit, i + 1)

\* add_tooltips_to_html
add_tooltips_to_html(doc, iss) ==
    LET soup == InjectStyle(doc)
        elems == annotate_text_elements(soup)
        hit == [ i \in 1..Len(soup) |->
                   IF \E k \in 1..Len(elems) : elems[k] = i
                   THEN matching_issue(iss,
                            (CHOOSE k \in 1..Len(elems) : elems[k] = i) - 1)
                   ELSE None ]
    IN  Emit(soup, hit, 1)

----------------------------------------------------------------------------
(* The colour strings handed to parse_color                                *)

\* the longest run of hex digits tried after the optional '#'
MaxHexLen == 8

HexChars == {"0", "a", "F"}

HexBodies == UNION { [1..n -> HexChars] : n \in 0..MaxHexLen }

HexInputs == HexBodies \cup { <<"#">> \o b : b \in HexBodies }

Channels == {0, 128, 255, 300}

RgbInputs ==
    UNION { LET r == ToDigits(c[1], 10)
                g == ToDigits(c[2], 10)
                b == ToDigits(c[3], 10)
            IN  { <<"r","g","b","(">> \o r \o <<",">> \o g \o <<",">> \o b \o <<")">>,
                  <<"r","g","b","a","(">> \o r \o <<","," ">> \o g \o <<","," ">> \o b
                      \o <<","," ","0",".","5",")">>,
                  <<"R","G","B","(">> \o r \o <<",">> \o g \o <<",">> \o b \o <<")">>,
                  <<"r","g","b","(">> \o <<" ">> \o r \o <<",">> \o g \o <<",">> \o b \o <<")">> }
            : c \in Channels \X Channels \X Channels }

NameInputs ==
    { n.name : n \in named_colors } \cup null_keywords \cup
    { <<"W","H","I","T","E">>, <<" ","N","a","v","y"," ">>, <<"c","r","i","m","s","o","n">>, <<"T","r","a","n","s","p","a","r","e","n","t">>,
      <<" ","i","n","h","e","r","i","t">>, <<" ">> }

OddHexInputs ==
    { <<"#","-","1","-","1","-","1">>, <<"#","g","g","g">>, <<"#"," ","f","f">>, <<"#","#","f","f","f">>, <<"#","1","2","3","4","5","g">> }

ColorInputs == HexInputs \cup RgbInputs \cup NameInputs \cup OddHexInputs

----------------------------------------------------------------------------
(* The idle values of the variables a specification does not use           *)

ColorIdle == color_str = <<>> /\ color = None /\ hex = <<>>

StyleIdle == decls = <<>> /\ style = <<>> /\ parent_bg = None /\ colors = None

ScanIdle ==
    /\ html_content = <<>>
    /\ analysis_result = None
    /\ issues = <<>>
    /\ marked_html = <<>>

LargeIdle == element_name = "" /\ large_text = None

ContrastIdle ==
    /\ color_a = None
    /\ color_b = None
    /\ contrast = None
    /\ large_flag = FALSE
    /\ wcag = None

AxeIdle ==
    /\ axe_pc = "idle"
    /\ axe_call = None
    /\ driver = None
    /\ open_drivers = {}
    /\ drivers_created = 0
    /\ temp_files = {}
    /\ files_created = 0
    /\ temp_path = None
    /\ phase = 0
    /\ raising = FALSE
    /\ violations = FALSE
    /\ outcome = "none"
    /\ calls = 0

ControllerIdle ==
    /\ lead_text = <<>>
    /\ add_tooltips = FALSE
    /\ response = None

----------------------------------------------------------------------------
(* SpecColor: parse_color, then rgb_to_hex of its result                   *)

InitColor ==
    /\ pc = "parse_color"
    /\ color_str \in ColorInputs
    /\ color = None
    /\ hex = <<>>
    /\ StyleIdle
    /\ ScanIdle
    /\ LargeIdle
    /\ ContrastIdle
    /\ AxeIdle
    /\ ControllerIdle

\* color = parse_color(color_str)
ParseColor ==
    /\ pc = "parse_color"
    /\ color' = parse_color(color_str)
    /\ pc' = "parsed"
    /\ UNCHANGED <<color_str, hex, styleVars, scanVars, largeVars, contrastVars, axeVars, controllerVars>>

\* hex = rgb_to_hex(color), as analyze_html does with a resolved colour
RgbToHex ==
    /\ pc = "parsed"
    /\ color # None
    /\ hex' = rgb_to_hex(color)
    /\ pc' = "hexed"
    /\ UNCHANGED <<color_str, color, styleVars, scanVars, largeVars, contrastVars, axeVars, controllerVars>>

NextColor == ParseColor \/ RgbToHex

SpecColor == InitColor /\ [][NextColor]_vars

----------------------------------------------------------------------------
(* The inline styles handed to get_computed_colors                         *)

\* the most declarations an inline style is written with
MaxDecls == 3

DeclVocab == {
    [prop |-> <<"c","o","l","o","r">>, val |-> <<"r","e","d">>],
    [prop |-> <<"c","o","l","o","r">>, val |-> <<"#","7","7","7">>],
    [prop |-> <<"C","o","l","o","r">>, val |-> <<"b","o","g","u","s">>],
    [prop |-> <<"b","a","c","k","g","r","o","u","n","d","-","c","o","l","o","r">>, val |-> <<"y","e","l","l","o","w">>],
    [prop |-> <<"b","a","c","k","g","r","o","u","n","d">>, val |-> <<"#","0","0","0">>],
    [prop |-> <<"b","o","r","d","e","r","-","c","o","l","o","r">>, val |-> <<"b","l","u","e">>],
    [prop |-> <<"f","o","n","t","-","w","e","i","g","h","t">>, val |-> <<"b","o","l","d">>] }

DeclLists == UNION { [1..n -> DeclVocab] : n \in 0..MaxDecls }

\* 'prop: val; prop: val', the text of the style attribute
RECURSIVE Serialize(_)
Serialize(ds) ==
    IF Len(ds) = 0 THEN <<>>
    ELSE LET d == ds[1]
             one == d.prop \o <<":", " ">> \o d.val
         IN  IF Len(ds) = 1 THEN one
             ELSE one \o <<";", " ">> \o Serialize(Tail(ds))

ParentBackgrounds == { None, <<0, 0, 0>>, <<128, 128, 128>> }

----------------------------------------------------------------------------
(* SpecStyle: get_computed_colors on one element                           *)

InitStyle ==
    /\ pc = "get_computed_colors"
    /\ decls \in DeclLists
    /\ style = Serialize(decls)
    /\ parent_bg \in ParentBackgrounds
    /\ colors = None
    /\ ColorIdle
    /\ ScanIdle
    /\ LargeIdle
    /\ ContrastIdle
    /\ AxeIdle
    /\ ControllerIdle

\* colors = get_computed_colors(element, parent_bg)
GetComputedColors ==
    /\ pc = "get_computed_colors"
    /\ colors' = get_computed_colors(style, parent_bg)
    /\ pc' = "resolved"
    /\ UNCHANGED <<colorVars, decls, style, parent_bg, scanVars, largeVars, contrastVars, axeVars, controllerVars>>

NextStyle == GetComputedColors

SpecStyle == InitStyle /\ [][NextStyle]_vars

----------------------------------------------------------------------------
(* The elements handed to is_large_text                                    *)

ElementNames == {"p", "span", "h1", "h2", "h3", "h4"}

\* the numbers font sizes are written with, each with its value in
\* hundredths (-1 for a text that is not a number)
SizeNumbers ==
    { [text |-> <<"9">>, hundredths |-> 900],
      [text |-> <<"1","3",".","9","9">>, hundredths |-> 1399],
      [text |-> <<"1","4">>, hundredths |-> 1400],
      [text |-> <<"1","7",".","9">>, hundredths |-> 1790],
      [text |-> <<"1","8">>, hundredths |-> 1800],
      [text |-> <<"1","8",".","5">>, hundredths |-> 1850],
      [text |-> <<"1","9">>, hundredths |-> 1900],
      [text |-> <<"2","3",".","9","9">>, hundredths |-> 2399],
      [text |-> <<"2","4">>, hundredths |-> 2400],
      [text |-> <<"3","0">>, hundredths |-> 3000],
      [text |-> <<"1",".","2",".","3">>, hundredths |-> -1] }

SizeUnits == { <<"p","t">>, <<"p","x">>, <<"P","X">>, <<"e","m">>, <<"r","e","m">>, <<"%">>, <<>> }

WeightValues == { <<"b","o","l","d">>, <<"b","o","l","d","e","r">>, <<"7","0","0">>, <<"8","0","0">>, <<"9","0","0">>, <<"n","o","r","m","a","l">>, <<"6","0","0">>, <<"B","o","l","d">> }

FontSizeDecls ==
    { [prop |-> p, val |-> n.text \o u, hundredths |-> n.hundredths, unit |-> u] :
        p \in { <<"f","o","n","t","-","s","i","z","e">>, <<"F","O","N","T","-","S","I","Z","E">> },
        n \in SizeNumbers, u \in SizeUnits }

FontWeightDecls ==
    { [prop |-> <<"f","o","n","t","-","w","e","i","g","h","t">>, val |-> w, hundredths |-> 0, unit |-> <<>>] :
        w \in WeightValues }

\* the inline styles: at most one font-size and one font-weight declaration,
\* in either order
FontStyles ==
    {<<>>}
    \cup { <<d>> : d \in FontSizeDecls \cup FontWeightDecls }
    \cup { <<w, d>> : w \in FontWeightDecls, d \in FontSizeDecls }
    \cup { <<d, w>> : w \in FontWeightDecls, d \in FontSizeDecls }

----------------------------------------------------------------------------
(* SpecLarge: is_large_text on one element                                 *)

InitLarge ==
    /\ pc = "is_large_text"
    /\ element_name \in ElementNames
    /\ decls \in FontStyles
    /\ style = Serialize(decls)
    /\ large_text = None
    /\ parent_bg = None
    /\ colors = None
    /\ ColorIdle
    /\ ScanIdle
    /\ ContrastIdle
    /\ AxeIdle
    /\ ControllerIdle

\* is_large = is_large_text(element)
IsLargeText ==
    /\ pc = "is_large_text"
    /\ large_text' = is_large_text(element_name, style)
    /\ pc' = IF large_text'.raised THEN "raised" ELSE "classified"
    /\ UNCHANGED <<element_name, colorVars, styleVars, scanVars, contrastVars, axeVars, controllerVars>>

NextLarge == IsLargeText

SpecLarge == InitLarge /\ [][NextLarge]_vars

----------------------------------------------------------------------------
(* The colours and ratios handed to calculate_contrast_ratio and           *)
(* check_wcag_compliance                                                   *)

Levels == {0, 10, 11, 118, 128, 255}

Palette == Levels \X Levels \X Levels

\* the largest ratio handed to check_wcag_compliance directly, in hundredths
MaxRatio == 1000

\* the ratios 1.00, 1.01, ... as fractions
RatioInputs == { [num |-> n, den |-> 100] : n \in 100..MaxRatio }

----------------------------------------------------------------------------
(* SpecContrast: calculate_contrast_ratio on two colours, then             *)
(* check_wcag_compliance on the ratio; or check_wcag_compliance on a ratio *)
(* given by the caller                                                     *)

InitContrast ==
    /\ large_flag \in BOOLEAN
    /\ wcag = None
    /\ \/ /\ pc = "calculate_contrast_ratio"
          /\ color_a \in Palette
          /\ color_b \in Palette
          /\ contrast = None
       \/ /\ pc = "check_wcag_compliance"
          /\ color_a = None
          /\ color_b = None
          /\ contrast \in RatioInputs
    /\ ColorIdle
    /\ StyleIdle
    /\ ScanIdle
    /\ LargeIdle
    /\ AxeIdle
    /\ ControllerIdle

\* contrast_ratio = calculate_contrast_ratio(color1, color2)
CalculateContrastRatio ==
    /\ pc = "calculate_contrast_ratio"
    /\ contrast' = calculate_contrast_ratio(color_a, color_b)
    /\ pc' = "check_wcag_compliance"
    /\ UNCHANGED <<color_a, color_b, large_flag, wcag,
                   colorVars, styleVars, scanVars, largeVars, axeVars, controllerVars>>

\* compliance = check_wcag_compliance(contrast_ratio, is_large)
CheckWcagCompliance ==
    /\ pc = "check_wcag_compliance"
    /\ wcag' = check_wcag_compliance(contrast, large_flag)
    /\ pc' = "checked"
    /\ UNCHANGED <<color_a, color_b, contrast, large_flag,
                   colorVars, styleVars, scanVars, largeVars, axeVars, controllerVars>>

NextContrast == CalculateContrastRatio \/ CheckWcagCompliance

SpecContrast == InitContrast /\ [][NextContrast]_vars

----------------------------------------------------------------------------
(* The documents handed to analyze_html and add_tooltips_to_html           *)

\* the most elements a document is written with
MaxNodes == 3

----------------------------------------------------------------------------
(* Spec: a document is written, scanned, then annotated                    *)

Init ==
    /\ pc = "start"
    /\ html_content = <<>>
    /\ analysis_result = None
    /\ issues = <<>>
    /\ marked_html = <<>>
    /\ ColorIdle
    /\ StyleIdle
    /\ LargeIdle
    /\ ContrastIdle
    /\ AxeIdle
    /\ ControllerIdle

\* the caller writes the markup, one element after the other in document
\* order: each is a child of the document or of an element on the path to
\* the one written before it
WriteElement ==
    /\ pc = "start"
    /\ Len(html_content) < MaxNodes
    /\ \E k \in ElementKinds :
       \E dp \in 1..(IF html_content = <<>> THEN 1
                     ELSE html_content[Len(html_content)].depth + 1) :
          html_content' = Append(html_content, [k EXCEPT !.depth = dp])
    /\ UNCHANGED <<pc, analysis_result, issues, marked_html, colorVars, styleVars, largeVars, contrastVars, axeVars, controllerVars>>

\* analysis_result = analyzer.analyze_html(html_content)
AnalyzeHtml ==
    /\ pc = "start"
    /\ analysis_result' = analyze_html(html_content)
    /\ pc' = IF analysis_result'.raised THEN "raised" ELSE "analyzed"
    /\ UNCHANGED <<html_content, issues, marked_html, colorVars, styleVars, largeVars, contrastVars, axeVars, controllerVars>>

\* marked_html = analyzer.add_tooltips_to_html(html_content, issues), with
\* the issues of the scan or with no issues
AddTooltips ==
    /\ pc = "analyzed"
    /\ \E iss \in {analysis_result.issues, <<>>} :
          /\ issues' = iss
          /\ marked_html' = add_tooltips_to_html(html_content, iss)
    /\ pc' = "annotated"
    /\ UNCHANGED <<html_content, analysis_result, colorVars, styleVars, largeVars, contrastVars, axeVars, controllerVars>>

Next == WriteElement \/ AnalyzeHtml \/ AddTooltips

Spec == Init /\ [][Next]_vars

----------------------------------------------------------------------------
(* SpecAxe: calls on one AxeColorContrastChecker, one after the other, each *)
(* step of a call either succeeding or raising                              *)

\* the calls made on one checker
MaxCalls == 2

\* the methods of the checker and the module functions that wrap them
AxeCalls == {"check_url", "check_html", "check_url_contrast", "check_html_contrast"}

\* the calls that go through check_html
HtmlCalls == {"check_html", "check_html_contrast"}

\* _cleanup_driver as it would be if it dropped the driver without quitting it
cleanup_driver_without_quit(drv, opened) ==
    [driver |-> None, open |-> opened]

\* _cleanup_driver: 'if self.driver: self.driver.quit(); self.driver = None'
cleanup_driver(drv, opened) ==
    IF drv # None
    THEN [driver |-> None, open |-> opened \ {drv[1]}]
    ELSE [driver |-> drv, open |-> opened]

\* an exception leaves the try block: control goes to the finally clause
Raise ==
    /\ raising' = TRUE
    /\ axe_pc' = "finally"

InitAxe ==
    /\ pc = "axe"
    /\ ColorIdle
    /\ StyleIdle
    /\ ScanIdle
    /\ LargeIdle
    /\ ContrastIdle
    /\ AxeIdle
    /\ ControllerIdle

\* a call begins: check_url(url), check_html(html_content),
\* check_url_contrast(url, add_markers) or check_html_contrast(html_content,
\* add_markers)
AxeCall ==
    /\ axe_pc = "idle"
    /\ calls < MaxCalls
    /\ \E op \in AxeCalls :
       \E markers \in (IF op \in {"check_url", "check_html"} THEN {FALSE} ELSE BOOLEAN) :
          axe_call' = [name |-> op, add_markers |-> markers]
    /\ calls' = calls + 1
    /\ axe_pc' = "setup_driver"
    /\ phase' = 1
    /\ raising' = FALSE
    /\ violations' = FALSE
    /\ outcome' = "none"
    /\ temp_path' = None
    /\ UNCHANGED <<pc, driver, open_drivers, drivers_created, temp_files, files_created,
                   colorVars, styleVars, scanVars, largeVars, contrastVars, controllerVars>>

\* self._setup_driver(): a new driver is assigned to self.driver, or the
\* installation or the start of the browser raises
SetupDriver ==
    /\ axe_pc = "setup_driver"
    /\ \/ /\ drivers_created' = drivers_created + 1
          /\ driver' = <<drivers_created + 1>>
          /\ open_drivers' = open_drivers \cup {drivers_created + 1}
          /\ axe_pc' = IF phase = 1 /\ axe_call.name \in HtmlCalls
                       THEN "write_temp" ELSE "get"
          /\ UNCHANGED raising
       \/ /\ Raise
          /\ UNCHANGED <<drivers_created, driver, open_drivers>>
    /\ UNCHANGED <<pc, axe_call, temp_files, files_created, temp_path, phase, violations,
                   outcome, calls,
                   colorVars, styleVars, scanVars, largeVars, contrastVars, controllerVars>>

\* 'with tempfile.NamedTemporaryFile(..., delete=False) as f: f.write(...);
\* temp_path = f.name': the file is created, then the write succeeds or raises
WriteTemp ==
    /\ axe_pc = "write_temp"
    /\ files_created' = files_created + 1
    /\ temp_files' = temp_files \cup {files_created + 1}
    /\ \/ /\ temp_path' = <<files_created + 1>>
          /\ axe_pc' = "get"
          /\ UNCHANGED raising
       \/ /\ Raise
          /\ UNCHANGED temp_path
    /\ UNCHANGED <<pc, axe_call, driver, open_drivers, drivers_created, phase, violations,
                   outcome, calls,
                   colorVars, styleVars, scanVars, largeVars, contrastVars, controllerVars>>

\* self.driver.get(...)
DriverGet ==
    /\ axe_pc = "get"
    /\ \/ /\ axe_pc' = IF phase = 1 THEN "inject" ELSE "page_source"
          /\ UNCHANGED raising
       \/ Raise
    /\ UNCHANGED <<pc, axe_call, driver, open_drivers, drivers_created, temp_files,
                   files_created, temp_path, phase, violations, outcome, calls,
                   colorVars, styleVars, scanVars, largeVars, contrastVars, controllerVars>>

\* axe = Axe(self.driver); axe.inject()
AxeInject ==
    /\ axe_pc = "inject"
    /\ \/ /\ axe_pc' = "run"
          /\ UNCHANGED raising
       \/ Raise
    /\ UNCHANGED <<pc, axe_call, driver, open_drivers, drivers_created, temp_files,
                   files_created, temp_path, phase, violations, outcome, calls,
                   colorVars, styleVars, scanVars, largeVars, contrastVars, controllerVars>>

\* results = axe.run(...); color_issues = self._filter_color_contrast_issues(results)
AxeRun ==
    /\ axe_pc = "run"
    /\ \/ /\ violations' \in BOOLEAN
          /\ axe_pc' = IF axe_call.name \in HtmlCalls THEN "unlink" ELSE "finally"
          /\ UNCHANGED raising
       \/ /\ Raise
          /\ UNCHANGED violations
    /\ UNCHANGED <<pc, axe_call, driver, open_drivers, drivers_created, temp_files,
                   files_created, temp_path, phase, outcome, calls,
                   colorVars, styleVars, scanVars, largeVars, contrastVars, controllerVars>>

\* os.unlink(temp_path), then the return statement of check_html
Unlink ==
    /\ axe_pc = "unlink"
    /\ temp_files' = temp_files \ {temp_path[1]}
    /\ axe_pc' = "finally"
    /\ UNCHANGED <<pc, axe_call, driver, open_drivers, drivers_created, files_created,
                   temp_path, phase, raising, violations, outcome, calls,
                   colorVars, styleVars, scanVars, largeVars, contrastVars, controllerVars>>

\* html = checker.driver.page_source, then add_visual_markers
PageSource ==
    /\ axe_pc = "page_source"
    /\ \/ /\ axe_pc' = "finally"
          /\ UNCHANGED raising
       \/ Raise
    /\ UNCHANGED <<pc, axe_call, driver, open_drivers, drivers_created, temp_files,
                   files_created, temp_path, phase, violations, outcome, calls,
                   colorVars, styleVars, scanVars, largeVars, contrastVars, controllerVars>>

\* 'finally: self._cleanup_driver()', then the exception propagates, or
\* check_url_contrast enters its marker block, or the call returns
Finally ==
    /\ axe_pc = "finally"
    /\ driver' = cleanup_driver(driver, open_drivers).driver
    /\ open_drivers' = cleanup_driver(driver, open_drivers).open
    /\ IF raising
       THEN /\ outcome' = "raised"
            /\ axe_pc' = "idle"
            /\ UNCHANGED phase
       ELSE IF /\ phase = 1
               /\ axe_call.name = "check_url_contrast"
               /\ axe_call.add_markers
               /\ violations
       THEN /\ phase' = 2
            /\ axe_pc' = "setup_driver"
            /\ UNCHANGED outcome
       ELSE /\ outcome' = "returned"
            /\ axe_pc' = "idle"
            /\ UNCHANGED phase
    /\ UNCHANGED <<pc, axe_call, drivers_created, temp_files, files_created, temp_path,
                   raising, violations, calls,
                   colorVars, styleVars, scanVars, largeVars, contrastVars, controllerVars>>

NextAxe ==
    \/ AxeCall
    \/ SetupDriver
    \/ WriteTemp
    \/ DriverGet
    \/ AxeInject
    \/ AxeRun
    \/ Unlink
    \/ PageSource
    \/ Finally

SpecAxe == InitAxe /\ [][NextAxe]_vars

----------------------------------------------------------------------------
(* SpecController: analyze_html_contrast_controller on a markup of some     *)
(* text and elements                                                        *)

\* the most elements of a markup handed to the controller
MaxMarkup == 2

\* the texts outside the elements the markups are written with
LeadTexts == { <<>>, <<" ">>, <<" ", "\n">>, <<"H","i">> }

\* 'not html_content or not html_content.strip()' for the markup of the text
\* and the elements doc
IsBlankMarkup(text, doc) == doc = <<>> /\ strip(text) = <<>>

\* the response as it would be if the marked markup were left out for a
\* report without issues
ControllerResponse_markers_when_issues(result, doc, tooltips) ==
    IF result.raised THEN None
    ELSE IF tooltips /\ result.issues # <<>>
    THEN [ source |-> "user_provided_html", analysis |-> result,
           marked_html |-> add_tooltips_to_html(doc, result.issues) ]
    ELSE [ source |-> "user_provided_html", analysis |-> result ]

\* the response built from the report, None when analyze_html raised
\* ('except Exception: return None')
ControllerResponse(result, doc, tooltips) ==
    IF result.raised THEN None
    ELSE IF tooltips
    THEN [ source |-> "user_provided_html", analysis |-> result,
           marked_html |-> add_tooltips_to_html(doc, result.issues) ]
    ELSE [ source |-> "user_provided_html", analysis |-> result ]

\* analyze_html_contrast_controller
analyze_html_contrast_controller(text, doc, tooltips) ==
    IF IsBlankMarkup(text, doc) THEN None
    ELSE ControllerResponse(analyze_html(doc), doc, tooltips)

InitController ==
    /\ pc = "start"
    /\ lead_text \in LeadTexts
    /\ add_tooltips \in BOOLEAN
    /\ response = None
    /\ ColorIdle
    /\ StyleIdle
    /\ ScanIdle
    /\ LargeIdle
    /\ ContrastIdle
    /\ AxeIdle

\* the caller writes the elements of the markup, as WriteElement does
WriteMarkup ==
    /\ pc = "start"
    /\ Len(html_content) < MaxMarkup
    /\ \E k \in ElementKinds :
       \E dp \in 1..(IF html_content = <<>> THEN 1
                     ELSE html_content[Len(html_content)].depth + 1) :
          html_content' = Append(html_content, [k EXCEPT !.depth = dp])
    /\ UNCHANGED <<pc, analysis_result, issues, marked_html, colorVars, styleVars,
                   largeVars, contrastVars, axeVars, controllerVars>>

\* result = await analyze_html_contrast_controller(html_content, add_tooltips)
AnalyzeHtmlContrastController ==
    /\ pc = "start"
    /\ response' = analyze_html_contrast_controller(lead_text, html_content, add_tooltips)
    /\ pc' = "responded"
    /\ UNCHANGED <<lead_text, add_tooltips, scanVars, colorVars, styleVars, largeVars,
                   contrastVars, axeVars>>

NextController == WriteMarkup \/ AnalyzeHtmlContrastController

SpecController == InitController /\ [][NextController]_vars

----------------------------------------------------------------------------
(* Claims about the colour model                                           *)

\* '#' followed by hex digits only (any number of them)
IsHashHex(s) ==
    /\ Len(s) >= 1
    /\ s[1] = "#"
    /\ \A i \in 2..Len(s) : IsHexDigit(s[i])

\* 3 or 6 hex digits, no '#'
IsBareHex(s) ==
    /\ Len(s) \in {3, 6}
    /\ \A i \in 1..Len(s) : IsHexDigit(s[i])

\* a string in one of the three forms parse_color documents
InColorForm(s) ==
    LET l == lower(strip(s))
    IN  \/ IsHashHex(l)
        \/ rgb_match(l) # None
        \/ \E n \in named_colors : n.name = l

\* the colour a 3- or 6-digit hex string denotes, whatever its letter case
ExpandedHex(h) ==
    IF Len(h) = 3
    THEN <<17 * HexVal(h[1]), 17 * HexVal(h[2]), 17 * HexVal(h[3])>>
    ELSE <<16 * HexVal(h[1]) + HexVal(h[2]),
           16 * HexVal(h[3]) + HexVal(h[4]),
           16 * HexVal(h[5]) + HexVal(h[6])>>

\* C8: every non-null colour parse_color returns for a string in hex, rgb()
\* or named form has three channels in 0..255, and rgb_to_hex of it is '#'
\* followed by exactly six hex digits.
C8_ColorIsEightBit ==
    (pc \in {"parsed", "hexed"} /\ InColorForm(color_str) /\ color # None) =>
        /\ Len(color) = 3
        /\ \A i \in 1..3 : color[i] \in 0..255
        /\ pc = "hexed" =>
               /\ Len(hex) = 7
               /\ hex[1] = "#"
               /\ \A i \in 2..7 : IsHexDigit(hex[i])

\* C9: '#' followed by a number of hex digits other than 3 or 6 parses to
\* black.
C9_MalformedHexIsBlack ==
    (pc = "parsed" /\ IsHashHex(color_str) /\ (Len(color_str) - 1) \notin {3, 6}) =>
        color = <<0, 0, 0>>

\* C10 as stated: a valid hex digit string parses to the same non-null colour
\* without the leading '#' as with it.
C10_HashOptional ==
    (pc = "parsed" /\ IsBareHex(color_str)) =>
        /\ color # None
        /\ color = parse_color(<<"#">> \o color_str)

\* C10 as amended: with the leading '#' a 3- or 6-digit hex string parses to
\* the colour of its digits, the same for any letter case; without the '#'
\* it parses to None.
C10_HashRequired ==
    pc = "parsed" =>
        /\ IsBareHex(color_str) => color = None
        /\ (IsHashHex(color_str) /\ IsBareHex(Tail(color_str))) =>
               color = ExpandedHex(Tail(color_str))

C10_Witness ==
    /\ pc = "parsed"
    /\ color_str = <<"#","a","F","0">>
    /\ color = <<170, 255, 0>>

\* the normalized form of a hex string: '#', then its digits in lower case,
\* each doubled when there are three of them
NormalizedForm(h) ==
    LET d == lower(lstrip(h, "#"))
    IN  <<"#">> \o (IF Len(d) = 3 THEN <<d[1], d[1], d[2], d[2], d[3], d[3]>> ELSE d)

\* 3 or 6 hex digits after a leading '#'
IsHashedHex(s) == Len(s) >= 1 /\ s[1] = "#" /\ IsBareHex(Tail(s))

\* C11 as stated: for a string of 3 or 6 hex digits, with or without the
\* leading '#', parse_color gives a colour and rgb_to_hex of that colour is
\* the normalized form of the string.
C11_HexRoundTrip ==
    (pc \in {"parsed", "hexed"} /\ (IsBareHex(color_str) \/ IsHashedHex(color_str))) =>
        /\ color # None
        /\ pc = "hexed" => hex = NormalizedForm(color_str)

\* C11 as amended: for '#' followed by 3 or 6 hex digits, parse_color gives a
\* colour and rgb_to_hex of that colour is the normalized form of the string.
C11_HashedHexRoundTrip ==
    (pc \in {"parsed", "hexed"} /\ IsHashedHex(color_str)) =>
        /\ color # None
        /\ pc = "hexed" => hex = NormalizedForm(color_str)

C11_Witness ==
    /\ pc = "hexed"
    /\ color_str = <<"#","F","a","0">>
    /\ hex = <<"#","f","f","a","a","0","0">>

----------------------------------------------------------------------------
(* Claims about the style resolver                                         *)

\* the declarations of ds whose property name, letter case ignored, is in ps
DeclsNamed(ds, ps) == { i \in 1..Len(ds) : lower(ds[i].prop) \in ps }

\* the value of the first declaration of ds named in ps, or None
FirstDeclared(ds, ps) ==
    LET hits == DeclsNamed(ds, ps)
    IN  IF hits = {} THEN None
        ELSE ds[CHOOSE i \in hits : \A j \in hits : i <= j].val

\* the colour a declared value resolves to, or the default
ResolvedOr(val, default) ==
    IF val = None \/ parse_color(val) = None THEN default ELSE parse_color(val)

\* C6: the foreground comes from the first declaration named color and the
\* background from the first one named background or background-color; no
\* other property supplies the foreground, in any order of declarations.
C6_FirstDeclarationWins ==
    pc = "resolved" =>
        /\ colors.foreground =
               ResolvedOr(FirstDeclared(decls, {<<"c","o","l","o","r">>}), <<0, 0, 0>>)
        /\ colors.background =
               ResolvedOr(FirstDeclared(decls, {<<"b","a","c","k","g","r","o","u","n","d">>, <<"b","a","c","k","g","r","o","u","n","d","-","c","o","l","o","r">>}),
                          IF parent_bg # None THEN parent_bg ELSE <<255, 255, 255>>)

\* no declaration of ds named in ps has a value that parses to a colour
NoneParses(ds, ps) ==
    \A i \in DeclsNamed(ds, ps) : parse_color(ds[i].val) = None

\* C16: the foreground is black when no color declaration is present or its
\* value does not parse; the background is the inherited one when the caller
\* gives one, a black one included, and white otherwise, when no background
\* declaration is present or its value does not parse.
C16_DefaultsWhenUnresolved ==
    pc = "resolved" =>
        /\ NoneParses(decls, {<<"c","o","l","o","r">>}) => colors.foreground = <<0, 0, 0>>
        /\ NoneParses(decls, {<<"b","a","c","k","g","r","o","u","n","d">>, <<"b","a","c","k","g","r","o","u","n","d","-","c","o","l","o","r">>}) =>
               colors.background =
                   IF parent_bg # None THEN parent_bg ELSE <<255, 255, 255>>

----------------------------------------------------------------------------
(* Claims about the scanner and the annotator                              *)

\* the scan has returned its report
Scanned == pc = "analyzed"

\* the element has a character that is not white space in a string of its
\* own (deep = FALSE) or of its subtree (deep = TRUE)
HasText(doc, i, deep) ==
    \E j \in i..(IF deep THEN SubtreeEnd(doc, i) ELSE i) :
        \E c \in 1..Len(doc[j].text) : ~IsSpace(doc[j].text[c])

\* the candidate elements of the document, as the set of their positions
\* (1-based) in the candidate list
Candidates(doc) == 1..Len(text_elements(doc))

\* the element at position k of the candidate list
CandidateAt(doc, k) == text_elements(doc)[k]

\* the contrast of a scanned style meets the AA threshold of its size class
RequiredMet(s) ==
    RatioAtLeast(s.contrast_ratio,
                 IF s.large.value THEN WCAG_AA_LARGE ELSE WCAG_AA_NORMAL)

\* the contrast of the element meets the AA threshold of its size class
MeetsRequired(doc, i) == RequiredMet(ElementScan(doc, i))

\* the issues of the report that carry the index idx
IssuesAt(report, idx) ==
    { k \in 1..Len(report.issues) : report.issues[k].element_index = idx }

\* C1: add_tooltips_to_html with an empty issue list returns its input
\* unchanged: no style sheet, no head element.
C1_EmptyIssuesUnchanged ==
    (pc = "annotated" /\ issues = <<>>) => marked_html = html_content

\* C2: every issue of a report has passes_aa = FALSE, and every scanned
\* element that meets its required AA threshold is counted in
\* total_elements_checked and is not in the issues.
C2_OnlyFailingReported ==
    Scanned =>
        LET doc == html_content
            r == analysis_result
            scanned == { k \in Candidates(doc) : HasText(doc, CandidateAt(doc, k), TRUE) }
        IN  /\ \A k \in 1..Len(r.issues) : ~r.issues[k].compliance.passes_aa
            /\ r.total_elements_checked = Cardinality(scanned)
            /\ \A k \in scanned :
                  MeetsRequired(doc, CandidateAt(doc, k)) => IssuesAt(r, k - 1) = {}

C2_Witness ==
    /\ pc = "analyzed"
    /\ analysis_result.total_issues_found = 1
    /\ analysis_result.total_elements_checked = 3

\* the candidate elements of the annotated document that the annotator did
\* not create
OriginalCandidates(doc) ==
    SelectSeq(doc, LAMBDA n : n.name \in TEXT_TAGS /\ n.tip = <<>>)

\* C3: given the markup and the issues of its scan, the annotating walk gives
\* each candidate the index the scanner gave it: the marked elements are
\* exactly the reported ones, as many as total_issues_found, each with the
\* tag name recorded in the issue with its index.
C3_AnnotatorIndexMatchesScanner ==
    (pc = "annotated" /\ issues = analysis_result.issues) =>
        LET doc == html_content
            out == OriginalCandidates(marked_html)
            r == analysis_result
        IN  /\ Len(out) = Len(text_elements(doc))
            /\ \A k \in 1..Len(out) :
                  /\ out[k].name = doc[CandidateAt(doc, k)].name
                  /\ out[k].marked <=> IssuesAt(r, k - 1) # {}
                  /\ out[k].marked =>
                        \A x \in IssuesAt(r, k - 1) : r.issues[x].element = out[k].name
            /\ Len(SelectSeq(marked_html, LAMBDA n : n.marked)) = r.total_issues_found

C3_Witness ==
    /\ pc = "annotated"
    /\ issues = analysis_result.issues
    /\ Len(issues) = 1
    /\ issues[1].element_index = 1
    /\ \E i \in 1..Len(html_content) : html_content[i].name = "head"

\* C4 as stated: a candidate is skipped exactly when its own text is empty
\* after trimming; text of descendants does not make it text-bearing.
C4_OwnTextDecides ==
    Scanned =>
        LET doc == html_content
            r == analysis_result
            own == { k \in Candidates(doc) : HasText(doc, CandidateAt(doc, k), FALSE) }
        IN  /\ r.total_elements_checked = Cardinality(own)
            /\ \A k \in Candidates(doc) \ own : IssuesAt(r, k - 1) = {}

\* C4 as amended: a candidate is skipped exactly when the text of the element
\* and of all its descendants is empty after trimming each string.
C4_SubtreeTextDecides ==
    Scanned =>
        LET doc == html_content
            r == analysis_result
            deep == { k \in Candidates(doc) : HasText(doc, CandidateAt(doc, k), TRUE) }
        IN  /\ r.total_elements_checked = Cardinality(deep)
            /\ \A k \in Candidates(doc) \ deep : IssuesAt(r, k - 1) = {}
            /\ \A k \in deep :
                  ~MeetsRequired(doc, CandidateAt(doc, k)) => IssuesAt(r, k - 1) # {}

C4_Witness ==
    /\ pc = "analyzed"
    /\ Len(html_content) = 2
    /\ html_content[1].name = "div" /\ html_content[1].text = <<>>
    /\ html_content[2].name = "p" /\ html_content[2].depth = 2
    /\ analysis_result.total_elements_checked = 2

\* C5: analyze_html returns a report for every markup and never raises.
C5_ScanNeverRaises == pc # "raised"

\* C7: the element_index of an issue is the 0-based position of its element
\* among all the candidates, the ones skipped for empty text included.
C7_IndexOverAllCandidates ==
    Scanned =>
        LET doc == html_content
            r == analysis_result
        IN  /\ \A x \in 1..Len(r.issues) :
                  LET k == r.issues[x].element_index + 1
                  IN  /\ k \in Candidates(doc)
                      /\ doc[CandidateAt(doc, k)].name = r.issues[x].element
                      /\ HasText(doc, CandidateAt(doc, k), TRUE)
                      /\ ~MeetsRequired(doc, CandidateAt(doc, k))
            /\ \A k \in Candidates(doc) :
                  (HasText(doc, CandidateAt(doc, k), TRUE)
                     /\ ~MeetsRequired(doc, CandidateAt(doc, k)))
                  => Cardinality(IssuesAt(r, k - 1)) = 1

C7_Witness ==
    /\ pc = "analyzed"
    /\ analysis_result.total_elements_checked = 1
    /\ analysis_result.total_issues_found = 1
    /\ analysis_result.issues[1].element_index = 2

\* C15: the severity of an issue is high when the contrast ratio recorded in
\* the issue is below 3.0, and medium otherwise.
C15_SeverityFromRecordedRatio ==
    Scanned =>
        \A x \in 1..Len(analysis_result.issues) :
            analysis_result.issues[x].severity =
                IF analysis_result.issues[x].contrast_ratio < 300
                THEN "high" ELSE "medium"

\* C24: the contrast ratio recorded in an issue, rounded to two decimals, is
\* strictly below the required ratio recorded in the same issue.
C24_RecordedBelowRequired ==
    Scanned =>
        \A x \in 1..Len(analysis_result.issues) :
            analysis_result.issues[x].contrast_ratio
                < 10 * analysis_result.issues[x].required_ratio

\* C25: an issue of severity medium is on text that is not large, requires
\* 4.5 and passes the large-text threshold; every issue on large text has
\* severity high.
C25_MediumOnlyOnNormalText ==
    Scanned =>
        \A x \in 1..Len(analysis_result.issues) :
            /\ analysis_result.issues[x].severity = "medium" =>
                  /\ ~analysis_result.issues[x].is_large_text
                  /\ analysis_result.issues[x].required_ratio = WCAG_AA_NORMAL
                  /\ analysis_result.issues[x].compliance.aa_large
            /\ analysis_result.issues[x].is_large_text =>
                  analysis_result.issues[x].severity = "high"

C25_Witness ==
    /\ pc = "analyzed"
    /\ Len(analysis_result.issues) = 3
    /\ analysis_result.issues[1].severity = "medium"
    /\ analysis_result.issues[2].is_large_text
    /\ analysis_result.issues[3].element = "h3"

\* C26: the issues of a report are in document order, at most one for a
\* candidate: their element_index values are strictly increasing, each is in
\* 0..(number of candidates - 1), the element of each issue is the tag name of
\* the candidate at its index, and total_issues_found is at most
\* total_elements_checked.
C26_IssuesInDocumentOrder ==
    Scanned =>
        /\ \A x \in 1..Len(analysis_result.issues) :
              /\ analysis_result.issues[x].element_index \in
                     0..(Len(text_elements(html_content)) - 1)
              /\ analysis_result.issues[x].element =
                     html_content[CandidateAt(html_content,
                         analysis_result.issues[x].element_index + 1)].name
              /\ x > 1 => analysis_result.issues[x - 1].element_index
                              < analysis_result.issues[x].element_index
        /\ analysis_result.total_issues_found = Len(analysis_result.issues)
        /\ analysis_result.total_issues_found <= analysis_result.total_elements_checked

C26_Witness ==
    /\ pc = "analyzed"
    /\ Len(analysis_result.issues) = 2
    /\ analysis_result.issues[1].element_index = 0
    /\ analysis_result.issues[2].element_index = 2
    /\ analysis_result.issues[1].element = "h2"
    /\ analysis_result.issues[2].element = "p"
    /\ analysis_result.total_elements_checked = 2

\* the fields of an issue that are computed from colours and sizes
Computed(issue) ==
    << issue.foreground_color, issue.background_color, issue.contrast_ratio,
       issue.is_large_text, issue.required_ratio, issue.compliance, issue.severity >>

\* the report of the document that holds only an element of the tag and
\* style of element i, with a text
ScannedAlone(doc, i) ==
    analyze_html(<<Element(doc[i].name, doc[i].style, <<"H","i">>, <<>>)>>)

\* C17: what the scan computes for a candidate element is what it computes
\* for an element of the same tag and inline style alone in a document,
\* whatever its ancestors, siblings and descendants; a background that the
\* element does not declare is white.
C17_NoBackgroundPropagation ==
    Scanned =>
        /\ \A k \in Candidates(html_content) :
              HasText(html_content, CandidateAt(html_content, k), TRUE) =>
                  /\ Cardinality(IssuesAt(analysis_result, k - 1)) =
                         Len(ScannedAlone(html_content, CandidateAt(html_content, k)).issues)
                  /\ \A x \in IssuesAt(analysis_result, k - 1) :
                         Computed(analysis_result.issues[x]) =
                             Computed(ScannedAlone(html_content,
                                          CandidateAt(html_content, k)).issues[1])
        /\ \A x \in 1..Len(analysis_result.issues) :
              ~Contains(lower(html_content[CandidateAt(html_content,
                            analysis_result.issues[x].element_index + 1)].style),
                        <<"b","a","c","k","g","r","o","u","n","d">>)
                  => analysis_result.issues[x].background_color = <<"#","f","f","f","f","f","f">>

C17_Witness ==
    /\ pc = "analyzed"
    /\ Len(html_content) = 2
    /\ html_content[1].name = "b" /\ html_content[1].style = <<"b","a","c","k","g","r","o","u","n","d",":"," ","#","0","0","0">>
    /\ html_content[2].depth = 2 /\ html_content[2].style = <<"c","o","l","o","r",":"," ","#","7","7","7">>
    /\ analysis_result.total_issues_found = 1
    /\ analysis_result.issues[1].background_color = <<"#","f","f","f","f","f","f">>

\* C18: total_elements_checked is the number of candidates that passed the
\* empty-text filter, total_issues_found is the length of issues, the two
\* severity counts add up to total_issues_found, and a document without
\* candidates gives 0, 0 and no issues.
C18_CountsConsistent ==
    Scanned =>
        /\ analysis_result.total_elements_checked =
               Cardinality({ k \in Candidates(html_content) :
                               HasText(html_content, CandidateAt(html_content, k), TRUE) })
        /\ analysis_result.total_issues_found = Len(analysis_result.issues)
        /\ analysis_result.summary.high_severity
               + analysis_result.summary.medium_severity
               = analysis_result.total_issues_found
        /\ Candidates(html_content) = {} =>
               /\ analysis_result.total_elements_checked = 0
               /\ analysis_result.total_issues_found = 0
               /\ analysis_result.issues = <<>>

C18_Witness ==
    /\ pc = "analyzed"
    /\ Len(text_elements(html_content)) = 3
    /\ analysis_result.total_elements_checked = 2
    /\ analysis_result.summary.high_severity = 1
    /\ analysis_result.summary.medium_severity = 1

----------------------------------------------------------------------------
(* Claims about the size class                                             *)

\* the font-size declarations of ds, property names in any letter case
SizeDecls(ds) == { i \in 1..Len(ds) : lower(ds[i].prop) = <<"f","o","n","t","-","s","i","z","e">> }

\* ds declares font-weight as bold, bolder, 700, 800 or 900
DeclaredBold(ds) ==
    \E i \in 1..Len(ds) :
        /\ lower(ds[i].prop) = <<"f","o","n","t","-","w","e","i","g","h","t">>
        /\ lower(ds[i].val) \in { <<"b","o","l","d">>, <<"b","o","l","d","e","r">>, <<"7","0","0">>, <<"8","0","0">>, <<"9","0","0">> }

\* the tag-based default
HeadingTag(name) == name \in {"h1", "h2", "h3"}

\* the size d, in hundredths of its unit, is large for a text that is bold or not
LargeSize(d, bold) ==
    IF lower(d.unit) = <<"p","t">>
    THEN d.hundredths >= 1800 \/ (bold /\ d.hundredths >= 1400)
    ELSE d.hundredths >= 2400 \/ (bold /\ d.hundredths >= 1900)

\* C12: with a font-size declared in pt or px the result is decided by the
\* size (18pt, 14pt if bold; 24px, 19px if bold) whatever the tag; with no
\* font-size declared it is decided by the tag (h1, h2, h3).
C12_SizeOverridesTag ==
    pc = "classified" =>
        /\ SizeDecls(decls) = {} => large_text.value = HeadingTag(element_name)
        /\ \A i \in SizeDecls(decls) :
              (lower(decls[i].unit) \in { <<"p","t">>, <<"p","x">> } /\ decls[i].hundredths >= 0) =>
                  large_text.value = LargeSize(decls[i], DeclaredBold(decls))

\* C13: with a font-size in a unit other than pt or px the result is the
\* tag-based default, whatever the number and the weight.
C13_OtherUnitKeepsDefault ==
    pc \in {"classified", "raised"} =>
        \A i \in SizeDecls(decls) :
            lower(decls[i].unit) \notin { <<"p","t">>, <<"p","x">> } =>
                /\ pc = "classified"
                /\ large_text.value = HeadingTag(element_name)

C13_Witness ==
    /\ pc = "classified"
    /\ element_name = "p"
    /\ \E i \in SizeDecls(decls) : decls[i].unit = <<"e","m">> /\ decls[i].hundredths = 3000
    /\ DeclaredBold(decls)
    /\ large_text.value = FALSE

----------------------------------------------------------------------------
(* Claims about contrast and compliance                                    *)

\* the ratio r is at least n / d
AtLeast(r, n, d) == d * r.num >= n * r.den

\* C14: aa_normal iff ratio >= 4.5, aa_large iff ratio >= 3.0, aaa_normal iff
\* ratio >= 7.0, aaa_large iff ratio >= 4.5; passes_aa is aa_large for large
\* text and aa_normal otherwise, passes_aaa is aaa_large for large text and
\* aaa_normal otherwise.
C14_ThresholdsBySizeClass ==
    pc = "checked" =>
        /\ wcag.aa_normal  = AtLeast(contrast, 9, 2)
        /\ wcag.aa_large   = AtLeast(contrast, 3, 1)
        /\ wcag.aaa_normal = AtLeast(contrast, 7, 1)
        /\ wcag.aaa_large  = AtLeast(contrast, 9, 2)
        /\ wcag.passes_aa  = IF large_flag THEN wcag.aa_large ELSE wcag.aa_normal
        /\ wcag.passes_aaa = IF large_flag THEN wcag.aaa_large ELSE wcag.aaa_normal

C14_Witness ==
    /\ pc = "checked"
    /\ large_flag
    /\ contrast = [num |-> 300, den |-> 100]
    /\ wcag.passes_aa
    /\ ~wcag.aa_normal

\* a channel c / 255 at or below the breakpoint 0.03928
BelowBreakpoint(c) == 100000 * c <= 3928 * 255

\* the linearized channel in units of 10^-7: (c / 255) / 12.92 at or below
\* the breakpoint, rounded to the nearest unit, and the gamma curve above it
Linearized(c) ==
    IF BelowBreakpoint(c)
    THEN (2 * c * 100000000 + 32946) \div (2 * 32946)
    ELSE LinearChannel[c + 1]

\* 0.2126 R + 0.7152 G + 0.0722 B of the linearized channels, in units of 10^-7
WeightedLuminance(rgb) ==
    LET Part(w, v) == w * (v \div 10000) + (w * (v % 10000)) \div 10000
        Rest(w, v) == (w * (v % 10000)) % 10000
    IN  Part(2126, Linearized(rgb[1])) + Part(7152, Linearized(rgb[2]))
        + Part(722, Linearized(rgb[3]))
        + (Rest(2126, Linearized(rgb[1])) + Rest(7152, Linearized(rgb[2]))
           + Rest(722, Linearized(rgb[3]))) \div 10000

\* C21: the ratio is (L_lighter + 0.05) / (L_darker + 0.05) for the WCAG
\* relative luminance L; it lies in [1, 21], and the ratio of black and white
\* is 21 within 0.001.
C21_RatioFormula ==
    (pc \in {"check_wcag_compliance", "checked"} /\ color_a # None) =>
        LET la == WeightedLuminance(color_a)
            lb == WeightedLuminance(color_b)
        IN  /\ contrast.num = (IF la >= lb THEN la ELSE lb) + 500000
            /\ contrast.den = (IF la >= lb THEN lb ELSE la) + 500000
            /\ contrast.num >= contrast.den
            /\ contrast.num <= 21 * contrast.den
            /\ (color_a = <<0, 0, 0>> /\ color_b = <<255, 255, 255>>) =>
                   /\ 1000 * (contrast.num \div 1000) - 21000 * (contrast.den \div 1000)
                          <= contrast.den \div 1000
                   /\ 21000 * (contrast.den \div 1000) - 1000 * (contrast.num \div 1000)
                          <= contrast.den \div 1000
            /\ \A i \in 1..3 :
                  ~BelowBreakpoint(color_a[i]) =>
                      adjust_channel(color_a[i]) > 3036 * color_a[i]

C21_Witness ==
    /\ pc = "check_wcag_compliance"
    /\ color_a = <<10, 11, 255>>
    /\ color_b = <<255, 255, 255>>
    /\ contrast.num = 10500000

\* C19: the ratio of two colours is the same in either order, and the ratio
\* of a colour to itself is 1.
C19_RatioSymmetric ==
    (pc \in {"check_wcag_compliance", "checked"} /\ color_a # None) =>
        /\ contrast = calculate_contrast_ratio(color_b, color_a)
        /\ color_a = color_b => contrast.num = contrast.den

C19_Witness ==
    /\ pc = "check_wcag_compliance"
    /\ color_a = <<0, 0, 0>>
    /\ color_b = <<255, 255, 255>>
    /\ contrast = [num |-> 10500000, den |-> 500000]

\* C20: for a fixed is_large, passes_aa at a ratio implies passes_aa at every
\* ratio that is not smaller.
C20_PassesMonotonic ==
    (pc = "checked" /\ contrast \in RatioInputs /\ wcag.passes_aa) =>
        \A r \in RatioInputs :
            r.num >= contrast.num =>
                check_wcag_compliance(r, large_flag).passes_aa

C20_Witness ==
    /\ pc = "checked"
    /\ ~large_flag
    /\ contrast = [num |-> 450, den |-> 100]
    /\ wcag.passes_aa

----------------------------------------------------------------------------
(* Claims about the path of an element                                     *)

\* the n-th element above element i (i itself for n = 0, 0 above the top)
RECURSIVE AncestorOf(_, _, _)
AncestorOf(doc, i, n) ==
    IF n = 0 \/ i = 0 THEN i ELSE AncestorOf(doc, ParentOf(doc, i), n - 1)

\* the children of the parent of element i that carry its tag name
SameTagSiblings(doc, i) ==
    { j \in 1..Len(doc) : /\ ParentOf(doc, j) = ParentOf(doc, i)
                          /\ doc[j].depth = doc[i].depth
                          /\ doc[j].name = doc[i].name }

\* the 1-based position of element i among them, 0 when it is the only one
OwnPosition(doc, i) ==
    IF Cardinality(SameTagSiblings(doc, i)) = 1 THEN 0
    ELSE Cardinality({ j \in SameTagSiblings(doc, i) : j <= i })

\* C22: the path of an element has at most five components, one for each
\* level from the element upward, each the tag name with the 1-based position
\* of the node itself among the children of its parent with the same tag
\* (none when it is the only one); two distinct siblings never get the same
\* position, also when their content is identical.
C22_XPathOwnPosition ==
    Scanned =>
        \A x \in 1..Len(analysis_result.issues) :
            LET doc == html_content
                i == CandidateAt(doc, analysis_result.issues[x].element_index + 1)
                path == analysis_result.issues[x].xpath
            IN  /\ Len(path) <= XPATH_DEPTH
                /\ Len(path) = (IF doc[i].depth < XPATH_DEPTH THEN doc[i].depth
                                ELSE XPATH_DEPTH)
                /\ \A n \in 0..(Len(path) - 1) :
                      /\ path[Len(path) - n].name = doc[AncestorOf(doc, i, n)].name
                      /\ path[Len(path) - n].pos = OwnPosition(doc, AncestorOf(doc, i, n))

----------------------------------------------------------------------------
(* Claims about the annotated document                                     *)

\* the positions, in the annotated document, of the candidates the annotator
\* did not create
MarkedCandidates(doc) ==
    SelectSeq([i \in 1..Len(doc) |-> i],
              LAMBDA i : doc[i].name \in TEXT_TAGS /\ doc[i].tip = <<>>)

\* the direct children of element i, in document order
ChildrenOf(doc, i) ==
    SelectSeq([j \in 1..Len(doc) |-> j], LAMBDA j : ParentOf(doc, j) = i)

\* an element without what the marking of the element itself changes
Unmarked(e) == [e EXCEPT !.class = <<>>, !.marked = FALSE]

\* the first n children cb of the annotated element are the children ca of
\* the original one, each with its own name, style and text
SameChildren(doc, ca, out, cb, n) ==
    /\ Len(ca) = n
    /\ Len(cb) >= n
    /\ \A c \in 1..n : Unmarked(out[cb[c]]) = Unmarked(doc[ca[c]])

\* the tooltip carries the fields of the issue
TooltipOf(t, issue) ==
    /\ t.name = "div"
    /\ t.class = <<"contrast-tooltip">>
    /\ t.tip = << [ ratio |-> issue.contrast_ratio,
                    required |-> issue.required_ratio,
                    foreground |-> issue.foreground_color,
                    background |-> issue.background_color,
                    severity |-> issue.severity ] >>

\* candidate i of the document and its image j in the annotated document,
\* given the issues hits that carry its index
AnnotatedAs(doc, i, out, j, iss, hits, ca, cb) ==
    /\ Unmarked(out[j]) = Unmarked(doc[i])
    /\ hits = {} =>
          /\ out[j].class = doc[i].class
          /\ ~out[j].marked
          /\ Len(cb) = Len(ca)
          /\ SameChildren(doc, ca, out, cb, Len(ca))
    /\ hits # {} =>
          /\ out[j].class = doc[i].class \o <<"contrast-issue-marker">>
          /\ out[j].marked
          /\ Len(cb) = Len(ca) + 1
          /\ SameChildren(doc, ca, out, cb, Len(ca))
          /\ \A x \in hits : TooltipOf(out[cb[Len(cb)]], iss[x])

\* C23: each candidate whose index is the element_index of an issue gains the
\* marker class after the classes it had and one child tooltip with the
\* ratio, the required ratio, the two hex colours and the severity of that
\* issue; each candidate whose index matches no issue keeps its attributes and
\* its direct children; the markup and the issue list handed over are as
\* they were.
C23_OnlyMatchedChanged ==
    pc = "annotated" =>
        /\ issues \in {analysis_result.issues, <<>>}
        /\ Len(MarkedCandidates(marked_html)) = Len(text_elements(html_content))
        /\ \A k \in 1..Len(text_elements(html_content)) :
              AnnotatedAs(html_content, CandidateAt(html_content, k),
                          marked_html, MarkedCandidates(marked_html)[k],
                          issues,
                          { x \in 1..Len(issues) : issues[x].element_index = k - 1 },
                          ChildrenOf(html_content, CandidateAt(html_content, k)),
                          ChildrenOf(marked_html, MarkedCandidates(marked_html)[k]))

C23_Witness ==
    /\ pc = "annotated"
    /\ Len(html_content) = 3
    /\ Len(issues) = 1
    /\ issues[1].element = "h2"
    /\ issues[1].element_index = 1
    /\ html_content[1].name = "div"
    /\ html_content[2].depth = 2
    /\ html_content[3].depth = 3
    /\ html_content[3].name = "p"

\* C27: each candidate of the markup has, in the annotated markup, the
\* candidate index it has in the markup, so that the same issues applied to
\* the annotated markup mark the same elements.
C27_IndexSpacePreserved ==
    pc = "annotated" =>
        \A k \in 1..Len(MarkedCandidates(marked_html)) :
            text_elements(marked_html)[k] = MarkedCandidates(marked_html)[k]

----------------------------------------------------------------------------
(* Claims about the axe checker                                            *)

\* C28: when a call of check_html has returned or raised, no temporary file
\* it created remains.
C28_TempFileRemoved ==
    (axe_pc = "idle" /\ calls > 0) => temp_files = {}

\* C29: at most one driver is open at any time, it is the one the checker
\* holds, and when a call has returned or raised every driver created has
\* been quit and the driver of the checker is None.
C29_NoDriverLeftOpen ==
    /\ Cardinality(open_drivers) <= 1
    /\ open_drivers = (IF driver = None THEN {} ELSE {driver[1]})
    /\ open_drivers \subseteq 1..drivers_created
    /\ axe_pc = "idle" => (driver = None /\ open_drivers = {})

C29_Witness ==
    /\ axe_pc = "idle"
    /\ axe_call # None
    /\ axe_call.name = "check_url_contrast"
    /\ phase = 2
    /\ outcome = "raised"
    /\ drivers_created = 2
    /\ calls = 1

----------------------------------------------------------------------------
(* Claims about the controller                                             *)

\* C30: analyze_html_contrast_controller returns None exactly when the markup
\* is empty or white space only or the analysis raised; otherwise it returns
\* a response whose analysis is the report of the scan and which holds
\* marked_html exactly when add_tooltips is true, also for a report without
\* issues.
C30_ControllerResponse ==
    pc = "responded" =>
        LET blank == /\ html_content = <<>>
                     /\ \A c \in 1..Len(lead_text) : IsSpace(lead_text[c])
        IN  /\ (response = None) <=> (blank \/ analyze_html(html_content).raised)
            /\ response # None =>
                  /\ response.analysis = analyze_html(html_content)
                  /\ ("marked_html" \in DOMAIN response) <=> add_tooltips
                  /\ add_tooltips =>
                        response.marked_html =
                            add_tooltips_to_html(html_content, response.analysis.issues)

C30_Witness ==
    /\ pc = "responded"
    /\ add_tooltips
    /\ html_content # <<>>
    /\ response # None
    /\ response.analysis.total_elements_checked = 2
    /\ response.analysis.total_issues_found = 0
    /\ "marked_html" \in DOMAIN response

====
